---- MODULE Spec2Model ----
(***************************************************************************)
(* A model of the bounded concurrent fetch pipeline of bonpreu-go:         *)
(* ProductService.FetchAllProductsData with its worker pool, feeder,       *)
(* completion watcher, aggregator loop, rate limiter and progress monitor  *)
(* (pkg/services/product_service.go).                                      *)
(*                                                                         *)
(* Goroutines are processes with a program counter each; Go channels are   *)
(* sequences with a capacity and a closed flag; an unbuffered channel is a *)
(* rendezvous between the sender's and the receiver's program counters.    *)
(***************************************************************************)
EXTENDS Integers, Sequences, FiniteSets, TLC

\* ------------------------------------------------------------------ bounds

\* Longest identifier list explored.
MaxIDs == 2

\* Largest maxWorkers argument explored.
MaxWorkersArg == 2

\* The identifier lists explored: two identifiers alternating, up to MaxIDs
\* long (a list of three repeats its first identifier), and the shortest list
\* that repeats an identifier.
IdentifierLists ==
    {[i \in 1..n |-> IF i % 2 = 1 THEN 10 ELSE 11] : n \in 0..MaxIDs}
        \cup {s \in {<<10, 10>>} : Len(s) <= MaxIDs}

\* Durations explored, in nanoseconds (time.Duration is an int64 of ns).
Durations == {-1, 0, 1, 4}

\* ------------------------------------------------------- program constants

DefaultWorkers == 200

\* Stand-ins for the two values a float64 +Inf may convert to (the int64
\* extremes); only their sign and order matter to the program.
MinInt64 == -1000000
MaxInt64 == 1000000

HTTPNotFound == 404
HTTPOK == 200

\* ------------------------------------------------------------ construction

\* Faulty variant: only a negative worker count falls back to the default.
NewProductServiceZeroKept(arg) == IF arg < 0 THEN DefaultWorkers ELSE arg

\* NewProductService: a non-positive worker count falls back to the default.
NewProductService(arg) == IF arg <= 0 THEN DefaultWorkers ELSE arg

\* ------------------------------------------------------------- Go channels

\* Faulty variant: a receive loop that gives up as soon as the channel is
\* empty, closed or not.
RangeEndsOnEmpty(ch, closed) == Len(ch) = 0

\* A range loop over a channel ends when the channel is closed and drained
\* (lines 122 and 153).
RangeEnds(ch, closed) == Len(ch) = 0 /\ closed > 0

\* Faulty variant: a spawn loop that runs once too often.
SpawnOneMore(i, n) == i <= n

\* The spawn loop's condition, i < p.maxWorkers (line 117).
SpawnMore(i, n) == i < n

\* ------------------------------------------------------------ rate limiter

\* Faulty variant: pacing whatever the duration.
PacingAlways(d) == TRUE

\* The test of lines 108 and 124: pacing is on for a positive duration only.
PacingEnabled(d) == d > 0

\* The values delayBetweenRequests can take for n identifiers over d > 0 ns:
\* time.Duration(float64(time.Second) / (float64(n) / d.Seconds())), that is
\* d / n truncated (for the durations and counts explored here the float64
\* arithmetic gives exactly that; for others it may give one nanosecond
\* less); for n = 0 the quotient is +Inf, whose conversion to int64 is
\* implementation-dependent.
DelayOutcomes(n, d) ==
    IF PacingEnabled(d)
    THEN IF n = 0 THEN {MinInt64, MaxInt64} ELSE {d \div n}
    ELSE {0}

\* ---------------------------------------------------------- fetch executor

\* What the remote end does to one request.
Resp(reqErr, doErr, status, gz, gzOK, readOK, jsonOK, entries) ==
    [reqErr |-> reqErr, doErr |-> doErr, status |-> status, gzipHeader |-> gz,
     gzipOK |-> gzOK, readOK |-> readOK, jsonOK |-> jsonOK, entries |-> entries]

NoResp == Resp(FALSE, FALSE, 0, FALSE, FALSE, FALSE, FALSE, 0)

\* The responses a fetch of the pool may see: one per failure kind of
\* fetchSingleProductData, a 404 whose body is junk, a 500 whose body is
\* fine, and two decodable bodies (with and without nutritional entries).
PoolResponses ==
    << Resp(FALSE, FALSE, 200, TRUE,  TRUE,  TRUE,  TRUE,  1),
       Resp(FALSE, FALSE, 404, FALSE, TRUE,  TRUE,  FALSE, 0),
       Resp(FALSE, TRUE,  0,   FALSE, TRUE,  TRUE,  TRUE,  0),
       Resp(FALSE, FALSE, 200, FALSE, TRUE,  TRUE,  TRUE,  0),
       Resp(FALSE, FALSE, 500, FALSE, TRUE,  TRUE,  TRUE,  1),
       Resp(FALSE, FALSE, 200, TRUE,  FALSE, TRUE,  TRUE,  0),
       Resp(FALSE, FALSE, 404, TRUE,  TRUE,  TRUE,  TRUE,  1),
       Resp(FALSE, FALSE, 200, FALSE, TRUE,  FALSE, TRUE,  0),
       Resp(FALSE, FALSE, 200, FALSE, TRUE,  TRUE,  FALSE, 0),
       Resp(TRUE,  FALSE, 0,   FALSE, TRUE,  TRUE,  TRUE,  0) >>

\* The assignments of responses to the n list positions that are explored:
\* consecutive positions see consecutive responses of PoolResponses, starting
\* anywhere in it (so every response is seen at every position), or every
\* position sees the same response: a success, a 404 or a transport failure.
ResponseAssignments(n) ==
    LET K == Len(PoolResponses)
    IN  {[i \in 1..n |-> PoolResponses[((k + i - 2) % K) + 1]] : k \in 1..K}
            \cup {[i \in 1..n |-> PoolResponses[k]] : k \in {1, 2, 3}}

\* Every behaviour of the remote end towards one request, for the fetch of a
\* single identifier.
Statuses == {200, 204, 404, 500}
AllResponses ==
    [reqErr : BOOLEAN, doErr : BOOLEAN, status : Statuses, gzipHeader : BOOLEAN,
     gzipOK : BOOLEAN, readOK : BOOLEAN, jsonOK : BOOLEAN, entries : 0..1]
SingleIDs == {10, 11}

\* Error values are their messages, as the tuple of the format's pieces.
NoError == <<>>
ErrNotFound(id) == <<"product", id, "not found">>
ErrCreateRequest(id) == <<"failed to create request for product", id>>
ErrTransport(id) == <<"failed to fetch product", id>>
ErrStatus(id, code) == <<"failed to fetch product", id, "status code", code>>
ErrGzip(id) == <<"failed to create gzip reader for product", id>>
ErrRead(id) == <<"failed to read response body for product", id>>
ErrJSON(id) == <<"failed to parse JSON for product", id>>

NoProduct == [ProductID |-> 0]

\* models.ParseProductFromResponse, as far as the pipeline reads it.
ParseProductFromResponse(r, id) == [ProductID |-> id]

\* models.ParseNutritionalDataFromResponse: one entry per table row.
ParseNutritionalDataFromResponse(r, id) ==
    [k \in 1..r.entries |-> [ProductID |-> id, row |-> k]]

MkResult(id, err, product, nutri) ==
    [ProductID |-> id, Error |-> err, Product |-> product, NutritionalData |-> nutri]

\* The one ProductResult fetchSingleProductData sends for response r.
FetchResult(id, r) ==
    IF r.reqErr THEN MkResult(id, ErrCreateRequest(id), NoProduct, <<>>)
    ELSE IF r.doErr THEN MkResult(id, ErrTransport(id), NoProduct, <<>>)
    ELSE IF r.status = HTTPNotFound THEN MkResult(id, ErrNotFound(id), NoProduct, <<>>)
    ELSE IF r.status # HTTPOK THEN MkResult(id, ErrStatus(id, r.status), NoProduct, <<>>)
    ELSE IF r.gzipHeader /\ ~r.gzipOK THEN MkResult(id, ErrGzip(id), NoProduct, <<>>)
    ELSE IF ~r.readOK THEN MkResult(id, ErrRead(id), NoProduct, <<>>)
    ELSE IF ~r.jsonOK THEN MkResult(id, ErrJSON(id), NoProduct, <<>>)
    ELSE MkResult(id, NoError, ParseProductFromResponse(r, id),
                  ParseNutritionalDataFromResponse(r, id))

\* Faulty variant: a worker that gives up after a failed fetch.
AfterFetchStopsOnError(result) == IF result.Error # <<>> THEN "exit" ELSE "recv"

\* Where a worker goes once fetchSingleProductData has returned: back to the
\* range loop, whatever the result (lines 122-129).
AfterFetch(result) == "recv"

\* The error FetchAllProductsData returns (line 181).
ReturnedError(errs) == NoError

\* Faulty variant: any failure taken for a not-found outcome.
IsNotFoundAnyError(result) == result.Error # <<>>

\* The aggregator's test for a not-found outcome: the error's text equals
\* fmt.Sprintf("product %d not found", result.ProductID).
IsNotFound(result) == result.Error = ErrNotFound(result.ProductID)


\* ------------------------------------------------------------------- state

VARIABLES
    productIDs,     \* the identifier list passed to FetchAllProductsData
    responses,      \* what the remote end answers to the fetch of each list position
    duration,       \* the duration passed to FetchAllProductsData (ns)
    maxWorkers,     \* ProductService.maxWorkers
    mainPc,         \* where FetchAllProductsData's own goroutine stands
    spawned,        \* the worker spawn loop's i
    delay,          \* delayBetweenRequests
    ticker,         \* rateLimiter: "nil", "running" or "stopped"
    tickerC,        \* ticks buffered in rateLimiter.C (capacity 1)
    ticksEmitted,   \* ticks rateLimiter has put on its channel so far
    jobChan,        \* buffered job channel: list positions in flight
    jobClosed,      \* how many times jobChan was closed
    resultChan,     \* buffered results channel
    resultClosed,   \* how many times resultChan was closed
    wg,             \* the WaitGroup's counter
    wPc,            \* per worker: "unborn", "recv", "tick", "fetch", "exit"
    wJob,           \* per worker: the list position it holds (0: none)
    feederPc,       \* "unborn", "feed", "done"
    feederIdx,      \* how many identifiers the feeder has sent
    watcherPc,      \* "unborn", "wait", "close", "signal", "done"
    monPc,          \* "unborn", "select", "tick", "final", "notify", "done"
    monObs,         \* the counter values the monitor has loaded so far
    finalReports,   \* how many COMPLETED summaries the monitor emitted
    stats,          \* ProgressStats
    aggCur,         \* the result the aggregator loop is handling
    products, nutritionalData, errors,  \* the aggregator's slices
    returned,       \* FetchAllProductsData's return values
    pulled, attempts, produced, consumed,  \* per list position: event counts
    sentAfterClose, \* did a worker send on resultChan after its close
    fsPc,           \* FetchSingleProductData: "idle", "start", "wait", "done"
    fsID,           \* its productID
    fsResp,         \* what the remote end answers to its request
    fsHelperPc,     \* its helper goroutine: "unborn", a stage of HelperStages, "done"
    fsResult,       \* the helper's local variable result
    fsSends,        \* sends the helper has made on resultChan
    fsChan,         \* its resultChan (capacity 1)
    fsRet,          \* the ProductResult it received
    ctorPc,         \* NewProductService and the spawn loop: "idle", "new", "spawn", "spawned"
    ctorArg,        \* the maxWorkers argument of NewProductService
    ctorWorkers,    \* the maxWorkers field of the service it built
    ctorSpawned,    \* worker goroutines the spawn loop has started for it
    dbPc,           \* SaveProducts / SaveNutritionalData: "idle", "call", "begin", "loop", "exec", "commit", "done"
    dbKind,         \* which of the two: "products" or "nutritional"
    dbLen,          \* len() of the collection passed in; records are known by position
    dbI, dbEnd,     \* the chunk loop's i and end
    dbTx,           \* the transaction: "none", "open", "committed", "rolledback"
    dbPending,      \* rows written inside the open transaction, as runs of records
    dbStore,        \* rows committed to the table, as runs of records
    dbBegins, dbCommits,  \* transactions begun and committed by the call
    dbExecs,        \* the statements sent to the store, in order
    dbErr,          \* the call's return value
    parsePc,        \* ParseProductFromResponse: "idle", "call", "done"
    parseID,        \* its productID
    parseIn,        \* its responseJSON
    parseOut,       \* the Product it returned
    saPc,           \* SaveAllData: "idle", "call", "products", "nutritional", "done"
    saProducts, saNutritional,  \* its arguments
    saErr,          \* its return value
    saCalls,        \* how many times it has been called on these arguments
    saPrev,         \* the tables and the return value at the end of the call before
    tblProducts,    \* the rows of table products (their product_id), oldest first
    tblNutritional, \* the rows of table product_nutritional_data, oldest first
    progPc,         \* main: "idle", "services", "sitemap", "fetching", "saving", "exit", "fatal"
    progStore,      \* what NewDatabaseService meets: "open", "ping", "ok"
    progSitemap,    \* what the sitemap request meets
    progErr,        \* the error main died of
    progLog         \* the milestones main has logged, in order

vars == <<productIDs, responses, duration, maxWorkers, mainPc, spawned, delay, ticker,
          tickerC, ticksEmitted, jobChan, jobClosed, resultChan, resultClosed,
          wg, wPc, wJob, feederPc, feederIdx, watcherPc, monPc,
          monObs, finalReports, stats, aggCur, products,
          nutritionalData, errors, returned, pulled, attempts, produced,
          consumed, sentAfterClose, fsPc, fsID, fsResp, fsHelperPc, fsResult,
          fsSends, fsChan, fsRet, ctorPc, ctorArg, ctorWorkers, ctorSpawned, dbPc, dbKind, dbLen,
          dbI, dbEnd, dbTx, dbPending, dbStore, dbBegins, dbCommits,
          dbExecs, dbErr, parsePc, parseID, parseIn, parseOut, saPc, saProducts,
          saNutritional, saErr, saCalls, saPrev, tblProducts, tblNutritional,
          progPc, progStore, progSitemap, progErr, progLog>>

confVars == <<productIDs, responses, duration, maxWorkers>>
tickVars == <<ticker, tickerC, ticksEmitted>>
jobVars == <<jobChan, jobClosed>>
resVars == <<resultChan, resultClosed, sentAfterClose>>
workerVars == <<wPc, wJob>>
feederVars == <<feederPc, feederIdx>>
monVars == <<monPc, monObs, finalReports>>
aggVars == <<aggCur, products, nutritionalData, errors>>
ghostVars == <<pulled, attempts, produced, consumed>>
fsVars == <<fsPc, fsID, fsResp, fsHelperPc, fsResult, fsSends, fsChan, fsRet>>
ctorVars == <<ctorPc, ctorArg, ctorWorkers, ctorSpawned>>
dbVars == <<dbPc, dbKind, dbLen, dbI, dbEnd, dbTx, dbPending, dbStore,
            dbBegins, dbCommits, dbExecs, dbErr>>
parseVars == <<parsePc, parseID, parseIn, parseOut>>
saVars == <<saPc, saProducts, saNutritional, saErr, saCalls, saPrev, tblProducts,
            tblNutritional>>
progVars == <<progPc, progStore, progSitemap, progErr, progLog>>
poolVars == <<confVars, mainPc, spawned, delay, tickVars, jobVars, resVars, wg,
              workerVars, feederVars, watcherPc, monVars, stats, aggVars,
              returned, ghostVars>>

\* What a step of the pool, of FetchSingleProductData, of the construction
\* of a service and of the batch writer leaves alone.
notPool == <<fsVars, ctorVars, dbVars, parseVars, saVars, progVars>>
notFetchSingle == <<poolVars, ctorVars, dbVars, parseVars, saVars, progVars>>
notCtor == <<poolVars, fsVars, dbVars, parseVars, saVars, progVars>>
notDb == <<poolVars, fsVars, ctorVars, parseVars, saVars, progVars>>
notParse == <<poolVars, fsVars, ctorVars, dbVars, saVars, progVars>>
notSave == <<poolVars, fsVars, ctorVars, parseVars, progVars>>
notProg == <<fsVars, ctorVars, parseVars>>

N == Len(productIDs)
Positions == 1..N
Workers == 1..maxWorkers

\* Room for the goroutines the spawn loop may start.
WorkerSlots == 1..(MaxWorkersArg + 1)

\* Faulty variant: a results buffer sized by the worker count.
ResultCapOfWorkers == maxWorkers

\* make(chan T, len(productIDs)), lines 97 and 114.
JobCap == N
ResultCap == N

NoResult == MkResult(0, NoError, NoProduct, <<>>)
\* A channel element: the ProductResult, tagged with the list position it is for.
NoCur == <<NoResult, 0>>
NoObs == [loaded |-> 0, processed |-> 0, success |-> 0, notFound |-> 0, errors |-> 0]
NoReturn == [returned |-> FALSE, products |-> <<>>, nutritionalData |-> <<>>, err |-> NoError]

\* The process is alive: a panic in any goroutine ends them all.
Alive == mainPc # "panic"

\* The pool before FetchAllProductsData has done anything.
PoolAtRest ==
    /\ spawned = 0
    /\ delay = 0
    /\ ticker = "nil"
    /\ tickerC = 0
    /\ ticksEmitted = 0
    /\ jobChan = <<>>
    /\ jobClosed = 0
    /\ resultChan = <<>>
    /\ resultClosed = 0
    /\ sentAfterClose = FALSE
    /\ wg = 0
    /\ wPc = [w \in WorkerSlots |-> "unborn"]
    /\ wJob = [w \in WorkerSlots |-> 0]
    /\ feederPc = "unborn"
    /\ feederIdx = 0
    /\ watcherPc = "unborn"
    /\ monPc = "unborn"
    /\ monObs = NoObs
    /\ finalReports = 0
    /\ stats = [TotalProducts |-> 0, ProcessedCount |-> 0, SuccessCount |-> 0,
                NotFoundCount |-> 0, ErrorCount |-> 0, StartTime |-> 0]
    /\ aggCur = NoCur
    /\ products = <<>>
    /\ nutritionalData = <<>>
    /\ errors = <<>>
    /\ returned = NoReturn
    /\ pulled = [i \in Positions |-> 0]
    /\ attempts = [i \in Positions |-> 0]
    /\ produced = [i \in Positions |-> 0]
    /\ consumed = [i \in Positions |-> 0]

\* No call of FetchSingleProductData is under way.
FetchSingleAtRest ==
    /\ fsPc = "idle"
    /\ fsID = 0
    /\ fsResp = NoResp
    /\ fsHelperPc = "unborn"
    /\ fsResult = NoResult
    /\ fsSends = 0
    /\ fsChan = <<>>
    /\ fsRet = NoResult

\* No service is being constructed.
CtorAtRest ==
    /\ ctorPc = "idle"
    /\ ctorArg = 0
    /\ ctorWorkers = 0
    /\ ctorSpawned = 0

\* No batch write is under way and the tables are empty.
DbAtRest ==
    /\ dbPc = "idle"
    /\ dbKind = "products"
    /\ dbLen = 0
    /\ dbI = 0
    /\ dbEnd = 0
    /\ dbTx = "none"
    /\ dbPending = <<>>
    /\ dbStore = <<>>
    /\ dbBegins = 0
    /\ dbCommits = 0
    /\ dbExecs = <<>>
    /\ dbErr = NoError

\* No call of ParseProductFromResponse is under way.
ParseAtRest ==
    /\ parsePc = "idle"
    /\ parseID = 0
    /\ parseIn = <<>>
    /\ parseOut = <<>>

\* No call of SaveAllData is under way and the tables are empty.
SaveAtRest ==
    /\ saPc = "idle"
    /\ saProducts = <<>>
    /\ saNutritional = <<>>
    /\ saErr = NoError
    /\ saCalls = 0
    /\ saPrev = <<>>
    /\ tblProducts = <<>>
    /\ tblNutritional = <<>>

\* The main program is not running.
ProgAtRest ==
    /\ progPc = "idle"
    /\ progStore = "ok"
    /\ progSitemap = <<>>
    /\ progErr = NoError
    /\ progLog = <<>>

\* A service made by NewProductService is about to run FetchAllProductsData
\* on some identifier list, for some duration, against some remote behaviour.
Init ==
    /\ productIDs \in IdentifierLists
    /\ responses \in ResponseAssignments(Len(productIDs))
    /\ duration \in Durations
    /\ \E arg \in 1..MaxWorkersArg : maxWorkers = NewProductService(arg)
    /\ mainPc = "start"
    /\ PoolAtRest
    /\ FetchSingleAtRest
    /\ CtorAtRest
    /\ DbAtRest
    /\ ParseAtRest
    /\ SaveAtRest
    /\ ProgAtRest

\* ------------------------------------------- FetchAllProductsData: set-up

\* Lines 71-103: the rate parameters, the counters, resultChan, done and
\* progressDone, and the monitor goroutine.
MainSetup ==
    /\ mainPc = "start"
    /\ delay' \in DelayOutcomes(N, duration)
    /\ stats' = [stats EXCEPT !.TotalProducts = N, !.StartTime = 1]   \* time.Now()
    /\ monPc' = "select"
    /\ mainPc' = "ticker"
    /\ UNCHANGED <<notPool, confVars, spawned, tickVars, jobVars, resVars, wg, workerVars,
                   feederVars, watcherPc, monObs, finalReports, aggVars, returned,
                   ghostVars>>

\* Lines 105-114: time.NewTicker panics on a non-positive interval.
MainCreateTicker ==
    /\ mainPc = "ticker"
    /\ IF PacingEnabled(duration)
       THEN IF delay <= 0
            THEN /\ mainPc' = "panic"
                 /\ ticker' = ticker
            ELSE /\ mainPc' = "spawn"
                 /\ ticker' = "running"
       ELSE /\ mainPc' = "spawn"
            /\ ticker' = ticker
    /\ UNCHANGED <<notPool, confVars, spawned, delay, tickerC, ticksEmitted, jobVars, resVars,
                   wg, workerVars, feederVars, watcherPc, monVars, stats, aggVars,
                   returned, ghostVars>>

\* Lines 117-131: one iteration of the spawn loop.
MainSpawnWorker ==
    /\ mainPc = "spawn"
    /\ SpawnMore(spawned, maxWorkers)
    /\ wg' = wg + 1
    /\ wPc' = [wPc EXCEPT ![spawned + 1] = "recv"]
    /\ spawned' = spawned + 1
    /\ UNCHANGED <<notPool, confVars, mainPc, delay, tickVars, jobVars, resVars, wJob, feederVars, watcherPc, monVars, stats, aggVars, returned,
                   ghostVars>>

\* Lines 133-146: the feeder and the completion watcher are started.
MainSpawnFeeder ==
    /\ mainPc = "spawn"
    /\ ~SpawnMore(spawned, maxWorkers)
    /\ feederPc' = "feed"
    /\ mainPc' = "spawnWatcher"
    /\ UNCHANGED <<notPool, confVars, spawned, delay, tickVars, jobVars, resVars, wg,
                   workerVars, feederIdx, watcherPc, monVars, stats, aggVars,
                   returned, ghostVars>>

MainSpawnWatcher ==
    /\ mainPc = "spawnWatcher"
    /\ watcherPc' = "wait"
    /\ mainPc' = "collect"
    /\ UNCHANGED <<notPool, confVars, spawned, delay, tickVars, jobVars, resVars, wg,
                   workerVars, feederVars, monVars, stats, aggVars, returned,
                   ghostVars>>

\* ------------------------------------------------------------- rate limiter

\* The ticker puts a tick on its one-slot channel; a tick that finds the slot
\* taken is dropped and changes nothing.
TickerTick ==
    /\ Alive
    /\ ticker = "running"
    /\ tickerC = 0
    /\ tickerC' = 1
    /\ ticksEmitted' = ticksEmitted + 1
    /\ UNCHANGED <<notPool, confVars, mainPc, spawned, delay, ticker, jobVars, resVars, wg,
                   workerVars, feederVars, watcherPc, monVars, stats, aggVars,
                   returned, ghostVars>>

\* ------------------------------------------------------------------ feeder

\* Line 136: jobChan <- productID.
FeederSend ==
    /\ Alive
    /\ feederPc = "feed"
    /\ feederIdx < N
    /\ Len(jobChan) < JobCap
    /\ jobClosed = 0
    /\ jobChan' = Append(jobChan, feederIdx + 1)
    /\ feederIdx' = feederIdx + 1
    /\ UNCHANGED <<notPool, confVars, mainPc, spawned, delay, tickVars, jobClosed, resVars, wg,
                   workerVars, feederPc, watcherPc, monVars, stats, aggVars, returned,
                   ghostVars>>

\* Faulty variant: a feeder that ends without closing jobChan.
FeederEndsWithoutClose ==
    /\ Alive
    /\ feederPc = "feed"
    /\ feederIdx = N
    /\ feederPc' = "done"
    /\ UNCHANGED <<notPool, confVars, mainPc, spawned, delay, tickVars, jobVars, resVars, wg,
                   workerVars, feederIdx, watcherPc, monVars, stats, aggVars, returned,
                   ghostVars>>

\* Line 138: close(jobChan).
FeederClose ==
    /\ Alive
    /\ feederPc = "feed"
    /\ feederIdx = N
    /\ jobClosed' = jobClosed + 1
    /\ feederPc' = "done"
    /\ UNCHANGED <<notPool, confVars, mainPc, spawned, delay, tickVars, jobChan, resVars, wg,
                   workerVars, feederIdx, watcherPc, monVars, stats, aggVars, returned,
                   ghostVars>>


\* ----------------------------------------------------------------- workers

\* Faulty variant: a receive that leaves the job in the channel.
WorkerPullKeepsJob(w) ==
    /\ Alive
    /\ wPc[w] = "recv"
    /\ Len(jobChan) > 0
    /\ pulled[Head(jobChan)] < 2
    /\ wJob' = [wJob EXCEPT ![w] = Head(jobChan)]
    /\ pulled' = [pulled EXCEPT ![Head(jobChan)] = @ + 1]
    /\ wPc' = [wPc EXCEPT ![w] = IF PacingEnabled(duration) THEN "tick" ELSE "fetch"]
    /\ attempts' = IF PacingEnabled(duration) THEN attempts
                   ELSE [attempts EXCEPT ![Head(jobChan)] = @ + 1]
    /\ UNCHANGED <<notPool, confVars, mainPc, spawned, delay, tickVars, jobVars, resVars, wg,
                   feederVars, watcherPc, monVars, stats, aggVars,
                   returned, produced, consumed>>

\* Lines 122-128: the range loop receives a job; with pacing off the worker
\* goes straight into fetchSingleProductData and the request is issued.
WorkerPull(w) ==
    /\ Alive
    /\ wPc[w] = "recv"
    /\ Len(jobChan) > 0
    /\ wJob' = [wJob EXCEPT ![w] = Head(jobChan)]
    /\ jobChan' = Tail(jobChan)
    /\ pulled' = [pulled EXCEPT ![Head(jobChan)] = @ + 1]
    /\ wPc' = [wPc EXCEPT ![w] = IF PacingEnabled(duration) THEN "tick" ELSE "fetch"]
    /\ attempts' = IF PacingEnabled(duration) THEN attempts
                   ELSE [attempts EXCEPT ![Head(jobChan)] = @ + 1]
    /\ UNCHANGED <<notPool, confVars, mainPc, spawned, delay, tickVars, jobClosed, resVars, wg,
                   feederVars, watcherPc, monVars, stats, aggVars,
                   returned, produced, consumed>>

\* Lines 120-122: the range loop ends on a closed, drained jobChan; the
\* deferred wg.Done() runs.
WorkerExit(w) ==
    /\ Alive
    /\ wPc[w] = "recv"
    /\ RangeEnds(jobChan, jobClosed)
    /\ wPc' = [wPc EXCEPT ![w] = "exit"]
    /\ wg' = wg - 1
    /\ UNCHANGED <<notPool, confVars, mainPc, spawned, delay, tickVars, jobVars, resVars, wJob, feederVars, watcherPc, monVars, stats, aggVars,
                   returned, ghostVars>>

\* Faulty variant: a wait that sees the tick but leaves it in the channel for
\* the next worker.
WorkerTickKeepsTick(w) ==
    /\ Alive
    /\ wPc[w] = "tick"
    /\ tickerC > 0
    /\ attempts' = [attempts EXCEPT ![wJob[w]] = @ + 1]
    /\ wPc' = [wPc EXCEPT ![w] = "fetch"]
    /\ UNCHANGED <<notPool, confVars, mainPc, spawned, delay, tickVars, jobVars,
                   resVars, wg, wJob, feederVars, watcherPc, monVars,
                   stats, aggVars, returned, pulled, produced, consumed>>

\* Lines 124-128: <-rateLimiter.C, then fetchSingleProductData is entered and
\* the request is issued.
WorkerTick(w) ==
    /\ Alive
    /\ wPc[w] = "tick"
    /\ tickerC > 0
    /\ tickerC' = tickerC - 1
    /\ attempts' = [attempts EXCEPT ![wJob[w]] = @ + 1]
    /\ wPc' = [wPc EXCEPT ![w] = "fetch"]
    /\ UNCHANGED <<notPool, confVars, mainPc, spawned, delay, ticker, ticksEmitted, jobVars,
                   resVars, wg, wJob, feederVars, watcherPc, monVars,
                   stats, aggVars, returned, pulled, produced, consumed>>

\* Lines 263-317: the response (or the failure) arrives, is classified into
\* the one ProductResult of this call, and that result is sent on resultChan;
\* the call returns to the range loop.  A send on a closed channel panics.
WorkerFetchReturn(w) ==
    /\ Alive
    /\ wPc[w] = "fetch"
    /\ Len(resultChan) < ResultCap
    /\ LET result == FetchResult(productIDs[wJob[w]], responses[wJob[w]])
       IN  IF resultClosed > 0
           THEN /\ mainPc' = "panic"
                /\ sentAfterClose' = TRUE
                /\ UNCHANGED <<resultChan, produced, wPc, wJob>>
           ELSE /\ resultChan' = Append(resultChan, <<result, wJob[w]>>)
                /\ produced' = [produced EXCEPT ![wJob[w]] = @ + 1]
                /\ wPc' = [wPc EXCEPT ![w] = AfterFetch(result)]
                /\ wJob' = [wJob EXCEPT ![w] = 0]
                /\ UNCHANGED <<mainPc, sentAfterClose>>
    /\ UNCHANGED <<notPool, confVars, spawned, delay, tickVars, jobVars, resultClosed, wg,
                   feederVars, watcherPc, monVars, stats, aggVars, returned, pulled,
                   attempts, consumed>>

\* ------------------------------------------------------ completion watcher

\* Faulty variant: a watcher that does not wait for the workers.
WatcherDoesNotWait ==
    /\ Alive
    /\ watcherPc = "wait"
    /\ watcherPc' = "close"
    /\ UNCHANGED <<notPool, confVars, mainPc, spawned, delay, tickVars, jobVars, resVars, wg,
                   workerVars, feederVars, monVars, stats, aggVars, returned,
                   ghostVars>>

\* Line 143: wg.Wait() returns once the counter is zero.
WatcherWait ==
    /\ Alive
    /\ watcherPc = "wait"
    /\ wg = 0
    /\ watcherPc' = "close"
    /\ UNCHANGED <<notPool, confVars, mainPc, spawned, delay, tickVars, jobVars, resVars, wg,
                   workerVars, feederVars, monVars, stats, aggVars, returned,
                   ghostVars>>

\* Line 144: close(resultChan).
WatcherClose ==
    /\ Alive
    /\ watcherPc = "close"
    /\ resultClosed' = resultClosed + 1
    /\ watcherPc' = "signal"
    /\ UNCHANGED <<notPool, confVars, mainPc, spawned, delay, tickVars, jobVars, resultChan,
                   sentAfterClose, wg, workerVars, feederVars, monVars, stats,
                   aggVars, returned, ghostVars>>

\* Line 145 and line 192: done <- true meets the monitor's case <-done.
WatcherSignal ==
    /\ Alive
    /\ watcherPc = "signal"
    /\ monPc = "select"
    /\ watcherPc' = "done"
    /\ monPc' = "final"
    /\ UNCHANGED <<notPool, confVars, mainPc, spawned, delay, tickVars, jobVars, resVars, wg,
                   workerVars, feederVars, monObs, finalReports, stats, aggVars,
                   returned, ghostVars>>

\* -------------------------------------------------------- progress monitor

\* Line 207: case <-ticker.C.
MonitorTick ==
    /\ Alive
    /\ monPc = "select"
    /\ monPc' = "tick"
    /\ UNCHANGED <<notPool, confVars, mainPc, spawned, delay, tickVars, jobVars, resVars, wg,
                   workerVars, feederVars, watcherPc, monObs, finalReports, stats,
                   aggVars, returned, ghostVars>>

\* Lines 208-232: the periodic report (its loads write nothing and the values
\* it prints are not kept), then back to the select.
MonitorReport ==
    /\ Alive
    /\ monPc = "tick"
    /\ monPc' = "select"
    /\ UNCHANGED <<notPool, confVars, mainPc, spawned, delay, tickVars, jobVars, resVars, wg,
                   workerVars, feederVars, watcherPc, monObs, finalReports, stats,
                   aggVars, returned, ghostVars>>

\* Faulty variant: a monitor whose first read swaps the counter for zero
\* instead of loading it.
MonitorLoadClearsCounter ==
    /\ Alive
    /\ monPc = "final"
    /\ monObs.loaded < 4
    /\ monObs' = [monObs EXCEPT !.loaded = @ + 1]
    /\ stats' = IF monObs.loaded = 0 THEN [stats EXCEPT !.ProcessedCount = 0] ELSE stats
    /\ UNCHANGED <<notPool, confVars, mainPc, spawned, delay, tickVars, jobVars, resVars, wg,
                   workerVars, feederVars, watcherPc, monPc, finalReports,
                   aggVars, returned, ghostVars>>

\* Lines 194-197: the four atomic loads of the final observation, one at a
\* time.
MonitorLoad ==
    /\ Alive
    /\ monPc = "final"
    /\ monObs.loaded < 4
    /\ monObs' = CASE monObs.loaded = 0 ->
                        [monObs EXCEPT !.loaded = 1, !.processed = stats.ProcessedCount]
                   [] monObs.loaded = 1 ->
                        [monObs EXCEPT !.loaded = 2, !.success = stats.SuccessCount]
                   [] monObs.loaded = 2 ->
                        [monObs EXCEPT !.loaded = 3, !.notFound = stats.NotFoundCount]
                   [] monObs.loaded = 3 ->
                        [monObs EXCEPT !.loaded = 4, !.errors = stats.ErrorCount]
    /\ UNCHANGED <<notPool, confVars, mainPc, spawned, delay, tickVars, jobVars, resVars, wg,
                   workerVars, feederVars, watcherPc, monPc, finalReports, stats,
                   aggVars, returned, ghostVars>>

\* Faulty variant: a monitor that leaves on the completion signal without
\* its COMPLETED summary.
MonitorLeavesSilently ==
    /\ Alive
    /\ monPc = "final"
    /\ monObs.loaded = 4
    /\ monPc' = "notify"
    /\ UNCHANGED <<notPool, confVars, mainPc, spawned, delay, tickVars, jobVars, resVars, wg,
                   workerVars, feederVars, watcherPc, monObs, finalReports, stats,
                   aggVars, returned, ghostVars>>

\* Lines 199-203: the COMPLETED summary.
MonitorFinalReport ==
    /\ Alive
    /\ monPc = "final"
    /\ monObs.loaded = 4
    /\ finalReports' = finalReports + 1
    /\ monPc' = "notify"
    /\ UNCHANGED <<notPool, confVars, mainPc, spawned, delay, tickVars, jobVars, resVars, wg,
                   workerVars, feederVars, watcherPc, monObs, stats, aggVars,
                   returned, ghostVars>>

\* Lines 204-205 and line 171: progressDone <- true meets <-progressDone.
MonitorNotify ==
    /\ Alive
    /\ monPc = "notify"
    /\ mainPc = "waitProgress"
    /\ monPc' = "done"
    /\ mainPc' = "finish"
    /\ UNCHANGED <<notPool, confVars, spawned, delay, tickVars, jobVars, resVars, wg,
                   workerVars, feederVars, watcherPc, monObs, finalReports, stats,
                   aggVars, returned, ghostVars>>


\* --------------------------------------------- FetchAllProductsData: collect

\* Line 153: the range loop receives a result.
AggReceive ==
    /\ mainPc = "collect"
    /\ Len(resultChan) > 0
    /\ aggCur' = Head(resultChan)
    /\ resultChan' = Tail(resultChan)
    /\ consumed' = [consumed EXCEPT ![Head(resultChan)[2]] = @ + 1]
    /\ mainPc' = "count"
    /\ UNCHANGED <<notPool, confVars, spawned, delay, tickVars, jobVars, resultClosed,
                   sentAfterClose, wg, workerVars, feederVars, watcherPc, monVars,
                   stats, products, nutritionalData, errors, returned, pulled,
                   attempts, produced>>

\* Line 153: the range loop ends on a closed, drained resultChan.
AggEnd ==
    /\ mainPc = "collect"
    /\ RangeEnds(resultChan, resultClosed)
    /\ mainPc' = "waitProgress"
    /\ UNCHANGED <<notPool, confVars, spawned, delay, tickVars, jobVars, resVars, wg,
                   workerVars, feederVars, watcherPc, monVars, stats, aggVars,
                   returned, ghostVars>>

\* Line 154: atomic.AddInt64(&stats.ProcessedCount, 1).
AggCount ==
    /\ mainPc = "count"
    /\ stats' = [stats EXCEPT !.ProcessedCount = @ + 1]
    /\ mainPc' = "classify"
    /\ UNCHANGED <<notPool, confVars, spawned, delay, tickVars, jobVars, resVars, wg,
                   workerVars, feederVars, watcherPc, monVars, aggVars, returned,
                   ghostVars>>

\* Faulty variant: an aggregator that counts a not-found outcome as an error
\* as well.
AggClassifyCountsTwice ==
    /\ mainPc = "classify"
    /\ LET result == aggCur[1]
       IN  IF result.Error # NoError
           THEN /\ stats' = IF IsNotFound(result)
                            THEN [stats EXCEPT !.NotFoundCount = @ + 1, !.ErrorCount = @ + 1]
                            ELSE [stats EXCEPT !.ErrorCount = @ + 1]
                /\ errors' = IF IsNotFound(result) THEN errors
                                                   ELSE Append(errors, result.Error)
                /\ UNCHANGED <<products, nutritionalData>>
           ELSE /\ stats' = [stats EXCEPT !.SuccessCount = @ + 1]
                /\ products' = Append(products, result.Product)
                /\ nutritionalData' = nutritionalData \o result.NutritionalData
                /\ UNCHANGED errors
    /\ aggCur' = NoCur
    /\ mainPc' = "collect"
    /\ UNCHANGED <<notPool, confVars, spawned, delay, tickVars, jobVars, resVars, wg,
                   workerVars, feederVars, watcherPc, monVars, returned, ghostVars>>

\* Faulty variant: an aggregator that keeps the product of every outcome,
\* failed or not.
AggClassifyKeepsEveryProduct ==
    /\ mainPc = "classify"
    /\ LET result == aggCur[1]
       IN  /\ stats' = IF result.Error = NoError THEN [stats EXCEPT !.SuccessCount = @ + 1]
                       ELSE IF IsNotFound(result) THEN [stats EXCEPT !.NotFoundCount = @ + 1]
                       ELSE [stats EXCEPT !.ErrorCount = @ + 1]
           /\ errors' = IF result.Error = NoError \/ IsNotFound(result) THEN errors
                        ELSE Append(errors, result.Error)
           /\ products' = Append(products, result.Product)
           /\ nutritionalData' = nutritionalData \o result.NutritionalData
    /\ aggCur' = NoCur
    /\ mainPc' = "collect"
    /\ UNCHANGED <<notPool, confVars, spawned, delay, tickVars, jobVars, resVars, wg,
                   workerVars, feederVars, watcherPc, monVars, returned, ghostVars>>

\* Lines 156-167: the outcome is counted in its category and kept.
AggClassify ==
    /\ mainPc = "classify"
    /\ LET result == aggCur[1]
       IN  IF result.Error # NoError
           THEN IF IsNotFound(result)
                THEN /\ stats' = [stats EXCEPT !.NotFoundCount = @ + 1]
                     /\ UNCHANGED <<products, nutritionalData, errors>>
                ELSE /\ stats' = [stats EXCEPT !.ErrorCount = @ + 1]
                     /\ errors' = Append(errors, result.Error)
                     /\ UNCHANGED <<products, nutritionalData>>
           ELSE /\ stats' = [stats EXCEPT !.SuccessCount = @ + 1]
                /\ products' = Append(products, result.Product)
                /\ nutritionalData' = nutritionalData \o result.NutritionalData
                /\ UNCHANGED errors
    /\ aggCur' = NoCur
    /\ mainPc' = "collect"
    /\ UNCHANGED <<notPool, confVars, spawned, delay, tickVars, jobVars, resVars, wg,
                   workerVars, feederVars, watcherPc, monVars, returned, ghostVars>>

\* Lines 173-181 and the deferred rateLimiter.Stop() of line 110.
MainReturn ==
    /\ mainPc = "finish"
    /\ returned' = [returned |-> TRUE, products |-> products,
                    nutritionalData |-> nutritionalData, err |-> ReturnedError(errors)]
    /\ ticker' = IF ticker = "running" THEN "stopped" ELSE ticker
    /\ mainPc' = "done"
    /\ UNCHANGED <<notPool, confVars, spawned, delay, tickerC, ticksEmitted, jobVars, resVars,
                   wg, workerVars, feederVars, watcherPc, monVars, stats, aggVars,
                   ghostVars>>

\* ----------------------------------------------------------- specification

Next ==
    \/ MainSetup
    \/ MainCreateTicker
    \/ MainSpawnWorker
    \/ MainSpawnFeeder
    \/ MainSpawnWatcher
    \/ TickerTick
    \/ FeederSend
    \/ FeederClose
    \/ \E w \in WorkerSlots : WorkerPull(w)
    \/ \E w \in WorkerSlots : WorkerExit(w)
    \/ \E w \in WorkerSlots : WorkerTick(w)
    \/ \E w \in WorkerSlots : WorkerFetchReturn(w)
    \/ WatcherWait
    \/ WatcherClose
    \/ WatcherSignal
    \/ MonitorTick
    \/ MonitorLoad
    \/ MonitorReport
    \/ MonitorFinalReport
    \/ MonitorNotify
    \/ AggReceive
    \/ AggEnd
    \/ AggCount
    \/ AggClassify
    \/ MainReturn

Spec == Init /\ [][Next]_vars

\* The steps of each goroutine.
MainStep ==
    \/ MainSetup \/ MainCreateTicker \/ MainSpawnWorker \/ MainSpawnFeeder
    \/ MainSpawnWatcher \/ AggReceive \/ AggEnd \/ AggCount \/ AggClassify
    \/ MainReturn
FeederStep == FeederSend \/ FeederClose
WorkerStep(w) ==
    \/ WorkerPull(w) \/ WorkerExit(w) \/ WorkerTick(w)
    \/ WorkerFetchReturn(w)
WatcherStep == WatcherWait \/ WatcherClose
MonitorStep == MonitorReport \/ MonitorLoad \/ MonitorFinalReport \/ MonitorNotify

\* The scheduler runs every goroutine that can take a step; every fetch comes
\* back (the client's 10 s timeout, line 58); a running ticker keeps ticking;
\* the monitor's select takes a waiting sender on done sooner or later, even
\* if its own ticker is ready at the same time.  The monitor's ticker itself
\* need never fire.
Fairness ==
    /\ WF_vars(MainStep)
    /\ WF_vars(FeederStep)
    /\ \A w \in WorkerSlots : WF_vars(WorkerStep(w))
    /\ WF_vars(WatcherStep)
    /\ SF_vars(WatcherSignal)
    /\ WF_vars(MonitorStep)
    /\ WF_vars(TickerTick)

FairSpec == Spec /\ Fairness


\* ------------------------------------------------- FetchSingleProductData

\* FetchSingleProductData is called for some identifier, against some
\* behaviour of the remote end; no pool is running.
InitFetchSingle ==
    /\ productIDs = <<>>
    /\ responses = <<>>
    /\ duration = 0
    /\ maxWorkers = NewProductService(1)
    /\ mainPc = "idle"
    /\ PoolAtRest
    /\ fsPc = "start"
    /\ fsID \in SingleIDs
    /\ fsResp \in AllResponses
    /\ fsHelperPc = "unborn"
    /\ fsResult = NoResult
    /\ fsSends = 0
    /\ fsChan = <<>>
    /\ fsRet = NoResult
    /\ CtorAtRest
    /\ DbAtRest
    /\ ParseAtRest
    /\ SaveAtRest
    /\ ProgAtRest

\* The tests fetchSingleProductData makes, in order, before it parses the
\* body: the request is built (lines 247-252), the round trip is made (lines
\* 263-268), the status is 200 (lines 272-280), the gzip reader opens (lines
\* 286-295), the body is read (lines 297-302) and is JSON (lines 305-310).
HelperStages == <<"request", "do", "status", "gzip", "read", "json">>

\* The stage after stage number k.
StageAfter(k) == IF k < Len(HelperStages) THEN HelperStages[k + 1] ELSE "parse"

\* Does the test of a stage fail against response r.
StageFails(stage, r) ==
    CASE stage = "request" -> r.reqErr
      [] stage = "do" -> r.doErr
      [] stage = "status" -> r.status # HTTPOK
      [] stage = "gzip" -> r.gzipHeader /\ ~r.gzipOK
      [] stage = "read" -> ~r.readOK
      [] stage = "json" -> ~r.jsonOK

\* Faulty variant: a 404 is reported like any other status that is not 200.
StageErrorStatusFirst(stage, id, r) ==
    CASE stage = "request" -> ErrCreateRequest(id)
      [] stage = "do" -> ErrTransport(id)
      [] stage = "status" -> ErrStatus(id, r.status)
      [] stage = "gzip" -> ErrGzip(id)
      [] stage = "read" -> ErrRead(id)
      [] stage = "json" -> ErrJSON(id)

\* The error a failed stage puts in result.Error.
StageError(stage, id, r) ==
    CASE stage = "request" -> ErrCreateRequest(id)
      [] stage = "do" -> ErrTransport(id)
      [] stage = "status" -> IF r.status = HTTPNotFound THEN ErrNotFound(id)
                             ELSE ErrStatus(id, r.status)
      [] stage = "gzip" -> ErrGzip(id)
      [] stage = "read" -> ErrRead(id)
      [] stage = "json" -> ErrJSON(id)

\* Lines 322-324 and 240-242: the capacity-1 channel and the helper
\* goroutine, which starts with result := ProductResult{ProductID: productID}.
FetchSingleSpawn ==
    /\ fsPc = "start"
    /\ fsHelperPc' = HelperStages[1]
    /\ fsResult' = MkResult(fsID, NoError, NoProduct, <<>>)
    /\ fsPc' = "wait"
    /\ UNCHANGED <<notFetchSingle, fsID, fsResp, fsSends, fsChan, fsRet>>

\* A test of the helper passes and it goes on to the next.
FetchSingleHelperPass ==
    /\ \E k \in 1..Len(HelperStages) :
          /\ fsHelperPc = HelperStages[k]
          /\ ~StageFails(HelperStages[k], fsResp)
          /\ fsHelperPc' = StageAfter(k)
    /\ UNCHANGED <<notFetchSingle, fsPc, fsID, fsResp, fsResult, fsSends, fsChan, fsRet>>

\* Faulty variant: an error path that sends the result and goes on instead
\* of returning.
FetchSingleHelperFailGoesOn ==
    /\ Len(fsChan) < 1
    /\ \E k \in 1..Len(HelperStages) :
          /\ fsHelperPc = HelperStages[k]
          /\ StageFails(HelperStages[k], fsResp)
          /\ fsResult' = [fsResult EXCEPT !.Error = StageError(HelperStages[k], fsID, fsResp)]
          /\ fsHelperPc' = StageAfter(k)
    /\ fsChan' = Append(fsChan, fsResult')
    /\ fsSends' = fsSends + 1
    /\ UNCHANGED <<notFetchSingle, fsPc, fsID, fsResp, fsRet>>

\* A test of the helper fails: result.Error is set, the result is sent and
\* the helper returns (the error paths of lines 248-310).
FetchSingleHelperFail ==
    /\ Len(fsChan) < 1
    /\ \E k \in 1..Len(HelperStages) :
          /\ fsHelperPc = HelperStages[k]
          /\ StageFails(HelperStages[k], fsResp)
          /\ fsResult' = [fsResult EXCEPT !.Error = StageError(HelperStages[k], fsID, fsResp)]
    /\ fsChan' = Append(fsChan, fsResult')
    /\ fsSends' = fsSends + 1
    /\ fsHelperPc' = "done"
    /\ UNCHANGED <<notFetchSingle, fsPc, fsID, fsResp, fsRet>>

\* Lines 312-317, run by the helper: the body is parsed into the result, the
\* result is sent and the helper returns.
FetchSingleHelperReturn ==
    /\ fsHelperPc = "parse"
    /\ Len(fsChan) < 1
    /\ fsResult' = [fsResult EXCEPT
                       !.Product = ParseProductFromResponse(fsResp, fsID),
                       !.NutritionalData = ParseNutritionalDataFromResponse(fsResp, fsID)]
    /\ fsChan' = Append(fsChan, fsResult')
    /\ fsSends' = fsSends + 1
    /\ fsHelperPc' = "done"
    /\ UNCHANGED <<notFetchSingle, fsPc, fsID, fsResp, fsRet>>

\* Lines 326-327: the result is received and returned.
FetchSingleReceive ==
    /\ fsPc = "wait"
    /\ Len(fsChan) > 0
    /\ fsRet' = Head(fsChan)
    /\ fsChan' = Tail(fsChan)
    /\ fsPc' = "done"
    /\ UNCHANGED <<notFetchSingle, fsID, fsResp, fsHelperPc, fsResult, fsSends>>

NextFetchSingle ==
    \/ FetchSingleSpawn
    \/ FetchSingleHelperPass
    \/ FetchSingleHelperFail
    \/ FetchSingleHelperReturn
    \/ FetchSingleReceive

SpecFetchSingle == InitFetchSingle /\ [][NextFetchSingle]_vars

\* The scheduler runs the caller and the helper when they can take a step,
\* and the round trip ends (the client's 10 s timeout, line 58).
FairSpecFetchSingle == SpecFetchSingle /\ WF_vars(NextFetchSingle)

\* ------------------------------------- NewProductService and the pool size

\* The maxWorkers arguments explored: negative, zero and positive.
WorkerArgs == (0 - MaxWorkersArg)..MaxWorkersArg

\* NewProductService is about to be called with some argument; the service
\* it returns then runs the spawn loop of FetchAllProductsData.
InitCtor ==
    /\ productIDs = <<>>
    /\ responses = <<>>
    /\ duration = 0
    /\ maxWorkers = NewProductService(1)
    /\ mainPc = "idle"
    /\ PoolAtRest
    /\ FetchSingleAtRest
    /\ ctorPc = "new"
    /\ ctorArg \in WorkerArgs
    /\ ctorWorkers = 0
    /\ ctorSpawned = 0
    /\ DbAtRest
    /\ ParseAtRest
    /\ SaveAtRest
    /\ ProgAtRest

\* Lines 51-64.
CtorNew ==
    /\ ctorPc = "new"
    /\ ctorWorkers' = NewProductService(ctorArg)
    /\ ctorPc' = "spawn"
    /\ UNCHANGED <<notCtor, ctorArg, ctorSpawned>>

\* Lines 117-119: one iteration of the spawn loop on that service.
CtorSpawnWorker ==
    /\ ctorPc = "spawn"
    /\ SpawnMore(ctorSpawned, ctorWorkers)
    /\ ctorSpawned' = ctorSpawned + 1
    /\ UNCHANGED <<notCtor, ctorPc, ctorArg, ctorWorkers>>

\* Line 117: the loop's condition fails.
CtorSpawnEnd ==
    /\ ctorPc = "spawn"
    /\ ~SpawnMore(ctorSpawned, ctorWorkers)
    /\ ctorPc' = "spawned"
    /\ UNCHANGED <<notCtor, ctorArg, ctorWorkers, ctorSpawned>>

NextCtor ==
    \/ CtorNew
    \/ CtorSpawnWorker
    \/ CtorSpawnEnd

SpecCtor == InitCtor /\ [][NextCtor]_vars

\* ------------------------------- SaveProducts and SaveNutritionalData

\* Most chunks a collection explored is split into.
MaxChunks == 3

\* maxParamsPerBatch (lines 189 and 296).
MaxParamsPerBatch == 60000

\* The most parameters PostgreSQL takes in one statement (line 188).
PgMaxParams == 65535

SaveKinds == {"products", "nutritional"}

\* Faulty variant: nutritional rows counted as having three parameters.
BatchDivisorThree(kind) == IF kind = "products" THEN 16 ELSE 3

\* The divisor of lines 190 and 297.
BatchDivisor(kind) == IF kind = "products" THEN 16 ELSE 4

\* maxProductsPerBatch and maxNutritionalPerBatch (lines 190 and 297).
MaxPerBatch(kind) == MaxParamsPerBatch \div BatchDivisor(kind)

\* Faulty variant: the placeholder numbering of a products row advances by one
\* less than the row has parameters.
ArgIndexStepShort(kind) == IF kind = "products" THEN 15 ELSE 4

\* argIndex += 16 (line 226) and argIndex += 4 (line 320).
ArgIndexStep(kind) == IF kind = "products" THEN 16 ELSE 4

\* The placeholders of one row (lines 204-206 and 311-312).
RowPlaceholders(kind, a) ==
    IF kind = "products"
    THEN <<a, a + 1, a + 2, a + 3, a + 4, a + 5, a + 6, a + 7,
           a + 8, a + 9, a + 10, a + 11, a + 12, a + 13, a + 14, a + 15>>
    ELSE <<a, a + 1, a + 2, a + 3>>

\* The arguments one record adds (lines 208-225 and 314-319): its fields,
\* each known by the record's position and the field's name.
RowArgs(kind, rec) ==
    IF kind = "products"
    THEN << <<rec, "ProductID">>, <<rec, "ProductType">>, <<rec, "ProductName">>,
            <<rec, "ProductDescription">>, <<rec, "ProductBrand">>,
            <<rec, "ProductPackSizeDescription">>, <<rec, "ProductPriceAmount">>,
            <<rec, "ProductCurrency">>, <<rec, "ProductUnitPriceAmount">>,
            <<rec, "ProductUnitPriceCurrency">>, <<rec, "ProductUnitPriceUnit">>,
            <<rec, "ProductAvailable">>, <<rec, "ProductAlcohol">>,
            <<rec, "ProductCookingGuidelines">>, <<rec, "ProductCategories">>,
            <<rec, "CreatedAt">> >>
    ELSE << <<rec, "ProductID">>, <<rec, "ProductNutritionalValue">>,
            <<rec, "ProductNutritionalQuantity">>, <<rec, "CreatedAt">> >>

\* The inner loop of lines 199-227 and 306-321 over the records at positions
\* lo..hi, entered with the given argIndex: the rows of placeholders, the
\* arguments, and argIndex after the loop.  The range is folded by halves,
\* argIndex being handed from each record to the next as the loop does.
RECURSIVE BuildRows(_, _, _, _)
BuildRows(kind, lo, hi, argIndex) ==
    IF lo > hi
    THEN [values |-> <<>>, args |-> <<>>, argIndex |-> argIndex]
    ELSE IF lo = hi
    THEN [values |-> <<RowPlaceholders(kind, argIndex)>>,
          args |-> RowArgs(kind, lo),
          argIndex |-> argIndex + ArgIndexStep(kind)]
    ELSE LET mid == (lo + hi) \div 2
             left == BuildRows(kind, lo, mid, argIndex)
             right == BuildRows(kind, mid + 1, hi, left.argIndex)
         IN  [values |-> left.values \o right.values,
              args |-> left.args \o right.args,
              argIndex |-> right.argIndex]

\* Faulty variant: the batch misses its first record.
BuildStatementSkipsFirst(kind, i, end) ==
    LET built == BuildRows(kind, i + 2, end, 1)
    IN  [values |-> built.values, args |-> built.args]

\* The statement for batch := records[i:end], with argIndex := 1.
BuildStatement(kind, i, end) ==
    LET built == BuildRows(kind, i + 1, end, 1)
    IN  [values |-> built.values, args |-> built.args]

\* The store takes a statement only if it has no more parameters than it
\* supports and every placeholder names an argument that was passed.
StatementValid(stmt) ==
    /\ Len(stmt.args) <= PgMaxParams
    /\ \A r \in 1..Len(stmt.values) :
          \A c \in 1..Len(stmt.values[r]) : stmt.values[r][c] \in 1..Len(stmt.args)

\* The rows a statement writes: one per row of placeholders, for the record
\* whose field the row's first placeholder binds.
StatementRows(stmt) ==
    [r \in 1..Len(stmt.values) |-> stmt.args[stmt.values[r][1]][1]]

\* A run of rows, as the table keeps them here: the first and the last
\* record, how many rows, and whether they are consecutive records in order.
RowRun(rows) ==
    [first |-> rows[1], last |-> rows[Len(rows)], rows |-> Len(rows),
     consecutive |-> \A n \in 1..Len(rows) : rows[n] = rows[1] + n - 1]

\* The errors of lines 183/290, 257/332 and 268/343.
ErrBegin == <<"failed to begin transaction">>
ErrBatch(kind, first, last) == <<"failed to bulk insert", kind, "batch", first, last>>
ErrCommit == <<"failed to commit transaction">>

\* The parameters a record of each kind has: the fields it passes.
ParamsPerRecord(kind) == Len(RowArgs(kind, 0))

\* The collection sizes explored: empty, one record, the sizes around every
\* multiple of the largest number of records whose parameters fit in
\* MaxParamsPerBatch, up to MaxChunks times it, and 9000.
BatchSizes(kind) ==
    LET c == MaxParamsPerBatch \div ParamsPerRecord(kind)
    IN  {0, 1}
            \cup {j * c - 1 : j \in 1..MaxChunks}
            \cup {j * c : j \in 1..MaxChunks}
            \cup {j * c + 1 : j \in 1..(MaxChunks - 1)}
            \cup {n \in {9000} : n <= MaxChunks * c}

\* SaveProducts or SaveNutritionalData is about to be called on a collection
\* of some size; the table is empty.
InitDb ==
    /\ productIDs = <<>>
    /\ responses = <<>>
    /\ duration = 0
    /\ maxWorkers = NewProductService(1)
    /\ mainPc = "idle"
    /\ PoolAtRest
    /\ FetchSingleAtRest
    /\ CtorAtRest
    /\ dbPc = "call"
    /\ dbKind \in SaveKinds
    /\ dbLen \in BatchSizes(dbKind)
    /\ dbI = 0
    /\ dbEnd = 0
    /\ dbTx = "none"
    /\ dbPending = <<>>
    /\ dbStore = <<>>
    /\ dbBegins = 0
    /\ dbCommits = 0
    /\ dbExecs = <<>>
    /\ dbErr = NoError
    /\ ParseAtRest
    /\ SaveAtRest
    /\ ProgAtRest

\* Faulty variant: an empty collection is not told apart.
DbCallAlwaysBegins ==
    /\ dbPc = "call"
    /\ dbPc' = "begin"
    /\ UNCHANGED <<notDb, dbKind, dbLen, dbI, dbEnd, dbTx, dbPending, dbStore,
                   dbBegins, dbCommits, dbExecs, dbErr>>

\* Lines 173-175 and 280-282: an empty collection returns nil at once.
DbCall ==
    /\ dbPc = "call"
    /\ dbPc' = IF dbLen = 0 THEN "done" ELSE "begin"
    /\ UNCHANGED <<notDb, dbKind, dbLen, dbI, dbEnd, dbTx, dbPending, dbStore,
                   dbBegins, dbCommits, dbExecs, dbErr>>

\* Lines 181-185 and 288-292: d.db.Begin() and the deferred tx.Rollback();
\* then i := 0 (lines 192 and 299).  Begin may fail.
DbBegin ==
    /\ dbPc = "begin"
    /\ \E ok \in BOOLEAN :
          IF ok
          THEN /\ dbTx' = "open"
               /\ dbBegins' = dbBegins + 1
               /\ dbI' = 0
               /\ dbPc' = "loop"
               /\ dbErr' = dbErr
          ELSE /\ dbErr' = ErrBegin
               /\ dbPc' = "done"
               /\ UNCHANGED <<dbTx, dbBegins, dbI>>
    /\ UNCHANGED <<notDb, dbKind, dbLen, dbEnd, dbPending, dbStore, dbCommits,
                   dbExecs>>

\* Lines 192-253 and 299-328: the loop's test and end; the batch and its
\* statement follow from i and end.
DbBuild ==
    /\ dbPc = "loop"
    /\ dbI < dbLen
    /\ LET end == IF dbI + MaxPerBatch(dbKind) > dbLen
                  THEN dbLen ELSE dbI + MaxPerBatch(dbKind)
       IN  dbEnd' = end
    /\ dbPc' = "exec"
    /\ UNCHANGED <<notDb, dbKind, dbLen, dbI, dbTx, dbPending, dbStore, dbBegins,
                   dbCommits, dbExecs, dbErr>>

\* The statement of the chunk the loop is at (values, args of lines 199-227).
CurrentStatement == BuildStatement(dbKind, dbI, dbEnd)

\* Faulty variant: a failed statement is skipped and the loop goes on.
DbExecSkipsFailure ==
    /\ dbPc = "exec"
    /\ \E ok \in {b \in BOOLEAN : b => StatementValid(CurrentStatement)} :
          /\ dbExecs' = Append(dbExecs, [first |-> dbI + 1, last |-> dbEnd,
                                         rows |-> Len(CurrentStatement.values),
                                         nargs |-> Len(CurrentStatement.args), ok |-> ok])
          /\ dbPending' = IF ok THEN Append(dbPending, RowRun(StatementRows(CurrentStatement))) ELSE dbPending
          /\ dbI' = dbI + MaxPerBatch(dbKind)
          /\ dbPc' = "loop"
          /\ UNCHANGED <<dbTx, dbErr>>
    /\ UNCHANGED <<notDb, dbKind, dbLen, dbEnd, dbStore, dbBegins, dbCommits>>

\* Faulty variant: every chunk is committed on its own, so the rows of the
\* chunks before a failed one stay in the table.
DbExecCommitsEachChunk ==
    /\ dbPc = "exec"
    /\ \E ok \in {b \in BOOLEAN : b => StatementValid(CurrentStatement)} :
          /\ dbExecs' = Append(dbExecs, [first |-> dbI + 1, last |-> dbEnd,
                                         rows |-> Len(CurrentStatement.values),
                                         nargs |-> Len(CurrentStatement.args), ok |-> ok])
          /\ IF ok
             THEN /\ dbStore' = Append(dbStore, RowRun(StatementRows(CurrentStatement)))
                  /\ dbI' = dbI + MaxPerBatch(dbKind)
                  /\ dbPc' = "loop"
                  /\ UNCHANGED <<dbTx, dbErr>>
             ELSE /\ dbErr' = ErrBatch(dbKind, dbI + 1, dbEnd)
                  /\ dbStore' = dbStore
                  /\ dbTx' = "rolledback"
                  /\ dbPc' = "done"
                  /\ dbI' = dbI
    /\ UNCHANGED <<notDb, dbKind, dbLen, dbEnd, dbPending, dbBegins, dbCommits>>

\* Lines 255-264 and 330-339: tx.Exec.  The store may refuse any statement
\* and refuses an invalid one; on an error the call returns it, naming the
\* batch, and the deferred Rollback discards what the transaction wrote.
\* Otherwise i += the chunk size.
DbExec ==
    /\ dbPc = "exec"
    /\ \E ok \in {b \in BOOLEAN : b => StatementValid(CurrentStatement)} :
          /\ dbExecs' = Append(dbExecs, [first |-> dbI + 1, last |-> dbEnd,
                                         rows |-> Len(CurrentStatement.values),
                                         nargs |-> Len(CurrentStatement.args), ok |-> ok])
          /\ IF ok
             THEN /\ dbPending' = Append(dbPending, RowRun(StatementRows(CurrentStatement)))
                  /\ dbI' = dbI + MaxPerBatch(dbKind)
                  /\ dbPc' = "loop"
                  /\ UNCHANGED <<dbTx, dbErr>>
             ELSE /\ dbErr' = ErrBatch(dbKind, dbI + 1, dbEnd)
                  /\ dbPending' = <<>>
                  /\ dbTx' = "rolledback"
                  /\ dbPc' = "done"
                  /\ dbI' = dbI
    /\ UNCHANGED <<notDb, dbKind, dbLen, dbEnd, dbStore, dbBegins, dbCommits>>

\* Lines 192 and 299: the loop's test fails.
DbLoopEnd ==
    /\ dbPc = "loop"
    /\ ~(dbI < dbLen)
    /\ dbPc' = "commit"
    /\ UNCHANGED <<notDb, dbKind, dbLen, dbI, dbEnd, dbTx, dbPending, dbStore,
                   dbBegins, dbCommits, dbExecs, dbErr>>

\* Faulty variant: the rows reach the table although the commit failed.
DbCommitKeepsRowsOnFailure ==
    /\ dbPc = "commit"
    /\ \E ok \in BOOLEAN :
          /\ dbStore' = dbStore \o dbPending
          /\ dbTx' = IF ok THEN "committed" ELSE "rolledback"
          /\ dbCommits' = IF ok THEN dbCommits + 1 ELSE dbCommits
          /\ dbErr' = IF ok THEN NoError ELSE ErrCommit
    /\ dbPending' = <<>>
    /\ dbPc' = "done"
    /\ UNCHANGED <<notDb, dbKind, dbLen, dbI, dbEnd, dbBegins, dbExecs>>

\* Lines 266-272 and 341-347: tx.Commit() makes the transaction's rows part
\* of the table and the call returns nil; a commit that fails leaves the
\* table as it was and the call returns the error.
DbCommit ==
    /\ dbPc = "commit"
    /\ \E ok \in BOOLEAN :
          /\ dbStore' = IF ok THEN dbStore \o dbPending ELSE dbStore
          /\ dbTx' = IF ok THEN "committed" ELSE "rolledback"
          /\ dbCommits' = IF ok THEN dbCommits + 1 ELSE dbCommits
          /\ dbErr' = IF ok THEN NoError ELSE ErrCommit
    /\ dbPending' = <<>>
    /\ dbPc' = "done"
    /\ UNCHANGED <<notDb, dbKind, dbLen, dbI, dbEnd, dbBegins, dbExecs>>

NextDb ==
    \/ DbCall
    \/ DbBegin
    \/ DbBuild
    \/ DbExec
    \/ DbLoopEnd
    \/ DbCommit

SpecDb == InitDb /\ [][NextDb]_vars

\* ------------------------------------------- models.ParseProductFromResponse

\* A decoded JSON value (what json.Unmarshal puts into an interface{}): its
\* dynamic type and, by type, its string (as a sequence of pieces), number,
\* boolean or array elements.  "absent" is a key that is not in its map.
JV(t, s, n, b, a) == [t |-> t, s |-> s, n |-> n, b |-> b, a |-> a]
JAbsent == JV("absent", <<>>, 0, FALSE, <<>>)
JNull == JV("null", <<>>, 0, FALSE, <<>>)
JObject == JV("object", <<>>, 0, FALSE, <<>>)
JString(s) == JV("string", s, 0, FALSE, <<>>)
JNumber(n) == JV("number", <<>>, n, FALSE, <<>>)
JBool(b) == JV("bool", <<>>, 0, b, <<>>)
JArray(a) == JV("array", <<>>, 0, FALSE, a)

\* An element of bopData.fields: a map with a title and a content, or some
\* other value.
JField(title, content) == [t |-> "object", title |-> title, content |-> content]
JNotAField == [t |-> "null", title |-> JAbsent, content |-> JAbsent]

\* The keys ParseProductFromResponse looks at, flattened: the maps product,
\* price, unitPrice, unitPrice.price and bopData, and the values in them.
ContainerKeys == {"product", "price", "unitPrice", "unitPricePrice", "bopData"}
StringKeys ==
    {"type", "name", "description", "brand", "packSizeDescription", "priceCurrency",
     "unitPriceCurrency", "unit", "detailedDescription"}
BoolKeys == {"available", "alcohol"}
AmountKeys == {"priceAmount", "unitPriceAmount"}
ArrayKeys == {"categoryPath", "fields"}
ValueKeys == StringKeys \cup BoolKeys \cup AmountKeys \cup ArrayKeys
Keys == ContainerKeys \cup ValueKeys

\* The maps a key lies in, outermost first in the response.
PathOf(k) ==
    IF k \in {"product", "bopData"} THEN {}
    ELSE IF k \in {"detailedDescription", "fields"} THEN {"bopData"}
    ELSE IF k \in {"priceAmount", "priceCurrency"} THEN {"product", "price"}
    ELSE IF k \in {"unitPricePrice", "unit"} THEN {"product", "unitPrice"}
    ELSE IF k \in {"unitPriceAmount", "unitPriceCurrency"}
         THEN {"product", "unitPrice", "unitPricePrice"}
    ELSE {"product"}

\* strings.ReplaceAll(s, "<br />", ""): the pieces of s that are not the tag.
ReplaceAllBr(s) == SelectSeq(s, LAMBDA piece : piece # "<br />")

\* strconv.ParseFloat on the strings explored: a numeral parses to its
\* value, anything else is an error.
ParseFloat(s) ==
    IF s = <<"12">> THEN [ok |-> TRUE, v |-> 12]
    ELSE IF s = <<"7">> THEN [ok |-> TRUE, v |-> 7]
    ELSE [ok |-> FALSE, v |-> 0]

\* Lines 127-133 and 142-148: a float64 amount is taken as it is, a string
\* amount is parsed, anything else leaves the field alone.
AmountOf(v, old) ==
    IF v.t = "number" THEN v.n
    ELSE IF v.t = "string" /\ ParseFloat(v.s).ok THEN ParseFloat(v.s).v
    ELSE old

\* The value.(string) assertions: the string, or what the field held.
StringOf(v, old) == IF v.t = "string" THEN v.s ELSE old
BoolOf(v, old) == IF v.t = "bool" THEN v.b ELSE old

\* Lines 159-165: the strings of categoryPath, in order.
CategoriesOf(v) ==
    IF v.t = "array"
    THEN LET strs == SelectSeq(v.a, LAMBDA c : c.t = "string")
         IN  [k \in 1..Len(strs) |-> strs[k].s]
    ELSE <<>>

\* Lines 174-185 and 199-210: the first element of fields that is a map
\* whose title is the string wanted (0: there is none); the loop breaks
\* there.
FirstTitled(v, title) ==
    LET hits == {k \in 1..Len(v.a) :
                    /\ v.a[k].t = "object"
                    /\ v.a[k].title.t = "string"
                    /\ v.a[k].title.s = title}
    IN  IF v.t # "array" \/ hits = {} THEN 0
        ELSE CHOOSE k \in hits : \A m \in hits : k <= m

\* Lines 174-185: the content of that element with its tags removed, if it
\* is a string.
CookingGuidelinesOf(v, old) ==
    LET k == FirstTitled(v, <<"cookingGuidelines">>)
    IN  IF k = 0 THEN old
        ELSE IF v.a[k].content.t = "string" THEN ReplaceAllBr(v.a[k].content.s)
        ELSE old

\* Lines 94-98: the product before anything is read from the response; the
\* clock reads 1.
NewProduct(productID) ==
    [ProductID |-> productID, ProductType |-> <<>>, ProductName |-> <<>>,
     ProductDescription |-> <<>>, ProductBrand |-> <<>>,
     ProductPackSizeDescription |-> <<>>, ProductPriceAmount |-> 0,
     ProductCurrency |-> <<>>, ProductUnitPriceAmount |-> 0,
     ProductUnitPriceCurrency |-> <<>>, ProductUnitPriceUnit |-> <<>>,
     ProductAvailable |-> FALSE, ProductAlcohol |-> FALSE,
     ProductCookingGuidelines |-> <<>>, ProductCategories |-> <<>>,
     CreatedAt |-> 1]

\* ParseProductFromResponse, lines 93-190, field by field.  Everything,
\* bopData included, is read inside the branch of line 101 (product is a
\* map); price, unitPrice and unitPrice.price are read inside theirs.
ParseProductFields(j, productID) ==
    LET zero == NewProduct(productID)
        inProduct == j["product"].t = "object"
        inPrice == inProduct /\ j["price"].t = "object"
        inUnitPrice == inProduct /\ j["unitPrice"].t = "object"
        inUnitPricePrice == inUnitPrice /\ j["unitPricePrice"].t = "object"
        inBopData == inProduct /\ j["bopData"].t = "object"
        description == IF j["description"].t = "string"
                       THEN ReplaceAllBr(j["description"].s) ELSE <<>>
    IN  IF ~inProduct THEN zero
        ELSE [zero EXCEPT
                !.ProductType = StringOf(j["type"], @),
                !.ProductName = ReplaceAllBr(StringOf(j["name"], @)),
                !.ProductDescription =
                    IF inBopData /\ j["detailedDescription"].t = "string"
                    THEN ReplaceAllBr(j["detailedDescription"].s)
                    ELSE description,
                !.ProductBrand = StringOf(j["brand"], @),
                !.ProductPackSizeDescription = StringOf(j["packSizeDescription"], @),
                !.ProductAvailable = BoolOf(j["available"], @),
                !.ProductAlcohol = BoolOf(j["alcohol"], @),
                !.ProductPriceAmount = IF inPrice THEN AmountOf(j["priceAmount"], @) ELSE @,
                !.ProductCurrency = IF inPrice THEN StringOf(j["priceCurrency"], @) ELSE @,
                !.ProductUnitPriceAmount =
                    IF inUnitPricePrice THEN AmountOf(j["unitPriceAmount"], @) ELSE @,
                !.ProductUnitPriceCurrency =
                    IF inUnitPricePrice THEN StringOf(j["unitPriceCurrency"], @) ELSE @,
                !.ProductUnitPriceUnit = IF inUnitPrice THEN StringOf(j["unit"], @) ELSE @,
                !.ProductCategories = CategoriesOf(j["categoryPath"]),
                !.ProductCookingGuidelines =
                    IF inBopData THEN CookingGuidelinesOf(j["fields"], @) ELSE @]

\* A response with every key present and of the type the parser reads.
FullResponse ==
    [k \in Keys |->
        IF k \in ContainerKeys THEN JObject
        ELSE IF k = "name" THEN JString(<<"Pa", "<br />", "de pages">>)
        ELSE IF k = "description" THEN JString(<<"short">>)
        ELSE IF k = "detailedDescription" THEN JString(<<"long", "<br />">>)
        ELSE IF k \in StringKeys THEN JString(<<k>>)
        ELSE IF k \in BoolKeys THEN JBool(TRUE)
        ELSE IF k = "priceAmount" THEN JNumber(3)
        ELSE IF k = "unitPriceAmount" THEN JString(<<"12">>)
        ELSE IF k = "categoryPath" THEN JArray(<<JString(<<"food">>), JNumber(1), JString(<<"bread">>)>>)
        ELSE JArray(<<JNotAField,
                      JField(JString(<<"nutritionalData">>), JString(<<"table">>)),
                      JField(JString(<<"cookingGuidelines">>), JString(<<"bake", "<br />">>)),
                      JField(JString(<<"cookingGuidelines">>), JString(<<"fry">>))>>)]

\* A response with none of the keys.
EmptyResponse == [k \in Keys |-> JAbsent]

\* A value of a type the parser does not read under key k.
WrongTyped(k) ==
    IF k \in StringKeys THEN JNumber(5)
    ELSE IF k \in BoolKeys THEN JString(<<"true">>)
    ELSE IF k \in AmountKeys THEN JString(<<"n/a">>)
    ELSE JNull

\* The decoded responses explored: the full and the empty one; the full one
\* with one key removed or wrong-typed; the empty one with one value added
\* (inside the maps it lies in); a bopData without a product; and a fields
\* array whose first cookingGuidelines element has no string content.
ParseInputs ==
    {FullResponse, EmptyResponse}
        \cup {[FullResponse EXCEPT ![k] = JAbsent] : k \in Keys}
        \cup {[FullResponse EXCEPT ![k] = WrongTyped(k)] : k \in Keys}
        \cup {[k \in Keys |-> IF k = one \/ k \in PathOf(one)
                              THEN FullResponse[k] ELSE JAbsent] : one \in Keys}
        \cup {[FullResponse EXCEPT !["fields"] =
                  JArray(<<JField(JString(<<"cookingGuidelines">>), JNumber(1)),
                           JField(JString(<<"cookingGuidelines">>), JString(<<"fry">>))>>)]}
        \cup {[FullResponse EXCEPT !["priceAmount"] = JString(<<"7">>)]}

\* ParseProductFromResponse is about to be called on some decoded response.
InitParse ==
    /\ productIDs = <<>>
    /\ responses = <<>>
    /\ duration = 0
    /\ maxWorkers = NewProductService(1)
    /\ mainPc = "idle"
    /\ PoolAtRest
    /\ FetchSingleAtRest
    /\ CtorAtRest
    /\ DbAtRest
    /\ parsePc = "call"
    /\ parseID \in SingleIDs
    /\ parseIn \in ParseInputs
    /\ parseOut = NewProduct(0)
    /\ SaveAtRest
    /\ ProgAtRest

\* Lines 93-190: the call and its return value.
ParseCall ==
    /\ parsePc = "call"
    /\ parseOut' = ParseProductFields(parseIn, parseID)
    /\ parsePc' = "done"
    /\ UNCHANGED <<notParse, parseID, parseIn>>

NextParse == ParseCall

SpecParse == InitParse /\ [][NextParse]_vars

\* ------------------------------------------------------------- SaveAllData

\* Most calls of SaveAllData on the same arguments explored.
MaxSaveCalls == 2

\* The errors of lines 360 and 365, wrapping the one of the call that failed.
ErrSaveProducts(e) == <<"failed to save products">> \o e
ErrSaveNutritional(e) == <<"failed to save nutritional data">> \o e

\* The positions, in the collection passed in, of the records a run of rows
\* holds.
RunRecords(run) == [k \in 1..run.rows |-> run.first + k - 1]

\* The positions of the records whose rows a call has committed, oldest
\* first.
RECURSIVE CommittedRecords(_)
CommittedRecords(store) ==
    IF store = <<>> THEN <<>>
    ELSE RunRecords(Head(store)) \o CommittedRecords(Tail(store))

\* INSERT INTO products ... ON CONFLICT (product_id) DO UPDATE SET ...
\* (lines 229-253; product_id is the table's primary key): a row whose
\* product_id is in the table replaces that row, any other row is added.
RECURSIVE UpsertProducts(_, _)
UpsertProducts(table, rows) ==
    IF rows = <<>> THEN table
    ELSE LET r == Head(rows)
             hit == {k \in 1..Len(table) : table[k].ProductID = r.ProductID}
         IN  UpsertProducts(IF hit = {} THEN Append(table, r)
                            ELSE [k \in 1..Len(table) |-> IF k \in hit THEN r ELSE table[k]],
                            Tail(rows))

\* INSERT INTO product_nutritional_data ... ON CONFLICT DO NOTHING (lines
\* 323-328): each row gets the next value of the serial id, the table's only
\* key, and is left out if a row with that id is there already.
RECURSIVE InsertNutritional(_, _)
InsertNutritional(table, rows) ==
    IF rows = <<>> THEN table
    ELSE LET id == Len(table) + 1
             r == [id |-> id, ProductID |-> Head(rows).ProductID, row |-> Head(rows).row]
         IN  InsertNutritional(IF \E k \in 1..Len(table) : table[k].id = id
                               THEN table ELSE Append(table, r),
                               Tail(rows))

\* The records of a collection at the given positions.
RecordsAt(collection, positions) ==
    [k \in 1..Len(positions) |-> collection[positions[k]]]

\* SaveProducts or SaveNutritionalData is called on a collection of n records.
DbStart(kind, n) ==
    /\ dbPc' = "call"
    /\ dbKind' = kind
    /\ dbLen' = n
    /\ dbI' = 0
    /\ dbEnd' = 0
    /\ dbTx' = "none"
    /\ dbPending' = <<>>
    /\ dbStore' = <<>>
    /\ dbBegins' = 0
    /\ dbCommits' = 0
    /\ dbExecs' = <<>>
    /\ dbErr' = NoError

\* The products and nutritional entries of a run of the pipeline over an
\* identifier list, every fetch a success with e nutritional entries.
SaveInputs ==
    {[products |-> [i \in 1..Len(l) |-> ParseProductFromResponse(PoolResponses[1], l[i])],
      nutritional |-> [i \in 1..(Len(l) * e) |-> [ProductID |-> l[i], row |-> 1]]] :
        l \in IdentifierLists, e \in 0..1}

\* SaveAllData is about to be called on some products and nutritional
\* entries; the tables are empty.
InitSave ==
    /\ productIDs = <<>>
    /\ responses = <<>>
    /\ duration = 0
    /\ maxWorkers = NewProductService(1)
    /\ mainPc = "idle"
    /\ PoolAtRest
    /\ FetchSingleAtRest
    /\ CtorAtRest
    /\ DbAtRest
    /\ ParseAtRest
    /\ ProgAtRest
    /\ saPc = "call"
    /\ \E in \in SaveInputs : saProducts = in.products /\ saNutritional = in.nutritional
    /\ saErr = NoError
    /\ saCalls = 1
    /\ saPrev = <<>>
    /\ tblProducts = <<>>
    /\ tblNutritional = <<>>

\* Lines 354-359: SaveAllData calls SaveProducts(products).
SaveAllCall ==
    /\ saPc = "call"
    /\ DbStart("products", Len(saProducts))
    /\ saPc' = "products"
    /\ UNCHANGED <<notSave, saProducts, saNutritional, saErr, saCalls, saPrev,
                   tblProducts, tblNutritional>>

\* Faulty variant: the nutritional data is written whether or not the
\* products were.
SaveAllIgnoresProductFailure ==
    /\ saPc = "products"
    /\ dbPc = "done"
    /\ tblProducts' = UpsertProducts(tblProducts,
                                     RecordsAt(saProducts, CommittedRecords(dbStore)))
    /\ DbStart("nutritional", Len(saNutritional))
    /\ saPc' = "nutritional"
    /\ UNCHANGED <<notSave, saProducts, saNutritional, saErr, saCalls, saPrev,
                   tblNutritional>>

\* Lines 359-364: SaveProducts has returned; the rows it committed are in
\* table products.  Its error ends SaveAllData; otherwise
\* SaveNutritionalData(nutritionalData) is called.
SaveAllAfterProducts ==
    /\ saPc = "products"
    /\ dbPc = "done"
    /\ tblProducts' = UpsertProducts(tblProducts,
                                     RecordsAt(saProducts, CommittedRecords(dbStore)))
    /\ IF dbErr # NoError
       THEN /\ saErr' = ErrSaveProducts(dbErr)
            /\ saPc' = "done"
            /\ UNCHANGED dbVars
       ELSE /\ DbStart("nutritional", Len(saNutritional))
            /\ saPc' = "nutritional"
            /\ saErr' = saErr
    /\ UNCHANGED <<notSave, saProducts, saNutritional, saCalls, saPrev, tblNutritional>>

\* Lines 364-370: SaveNutritionalData has returned; the rows it committed
\* are in table product_nutritional_data.  SaveAllData returns its error, or
\* nil.
SaveAllAfterNutritional ==
    /\ saPc = "nutritional"
    /\ dbPc = "done"
    /\ tblNutritional' = InsertNutritional(tblNutritional,
                                           RecordsAt(saNutritional, CommittedRecords(dbStore)))
    /\ saErr' = IF dbErr # NoError THEN ErrSaveNutritional(dbErr) ELSE NoError
    /\ saPc' = "done"
    /\ UNCHANGED <<notSave, dbVars, saProducts, saNutritional, saCalls, saPrev, tblProducts>>

\* The caller runs SaveAllData again on the same arguments.
SaveAgain ==
    /\ progPc = "idle"
    /\ saPc = "done"
    /\ saCalls < MaxSaveCalls
    /\ saPrev' = [products |-> tblProducts, nutritional |-> tblNutritional, err |-> saErr]
    /\ saCalls' = saCalls + 1
    /\ saErr' = NoError
    /\ saPc' = "call"
    /\ UNCHANGED <<notSave, dbVars, saProducts, saNutritional, tblProducts, tblNutritional>>

NextSave ==
    \/ SaveAllCall
    \/ SaveAllAfterProducts
    \/ SaveAllAfterNutritional
    \/ SaveAgain
    \/ NextDb

SpecSave == InitSave /\ [][NextSave]_vars

\* ------------------------------------------------------ SitemapService

\* What the sitemap request meets: a transport failure, a status, a body
\* that can or cannot be read and decoded, and the <loc> of each <url>.  A
\* loc is the sequence of its path segments once unescaped, stripped of a
\* trailing "/" and split at "/" (lines 78-85); <<>> is the empty loc.
SitemapResp(getErr, status, readOK, xmlOK, urls) ==
    [getErr |-> getErr, status |-> status, readOK |-> readOK, xmlOK |-> xmlOK,
     urls |-> urls]

\* The errors of lines 42, 48, 55 and 64.
ErrSitemapGet == <<"failed to fetch sitemap">>
ErrSitemapStatus(code) == <<"failed to fetch URL list, status code", code>>
ErrSitemapRead == <<"failed to read response body">>
ErrSitemapXML == <<"failed to parse XML">>

\* strconv.Atoi on the segments explored: a decimal integer, with or without
\* a sign, is accepted; anything else is an error.
Atoi(seg) ==
    IF seg = "10" THEN [ok |-> TRUE, v |-> 10]
    ELSE IF seg = "11" THEN [ok |-> TRUE, v |-> 11]
    ELSE IF seg = "0" THEN [ok |-> TRUE, v |-> 0]
    ELSE IF seg = "-5" THEN [ok |-> TRUE, v |-> -5]
    ELSE [ok |-> FALSE, v |-> 0]

\* Lines 72-99: one identifier per loc whose last segment is an integer, in
\* the order of the sitemap.
RECURSIVE ExtractIDs(_)
ExtractIDs(urls) ==
    IF urls = <<>> THEN <<>>
    ELSE LET loc == Head(urls)
             rest == ExtractIDs(Tail(urls))
         IN  IF loc = <<>> THEN rest
             ELSE IF Atoi(loc[Len(loc)]).ok THEN <<Atoi(loc[Len(loc)]).v>> \o rest
             ELSE rest

\* FetchProductIds, lines 34-105: the identifiers and the error.
FetchProductIds(r) ==
    IF r.getErr THEN [ids |-> <<>>, err |-> ErrSitemapGet]
    ELSE IF r.status # HTTPOK THEN [ids |-> <<>>, err |-> ErrSitemapStatus(r.status)]
    ELSE IF ~r.readOK THEN [ids |-> <<>>, err |-> ErrSitemapRead]
    ELSE IF ~r.xmlOK THEN [ids |-> <<>>, err |-> ErrSitemapXML]
    ELSE [ids |-> ExtractIDs(r.urls), err |-> NoError]

\* The loc of the product page of an identifier.
LocOf(id) == <<"products", IF id = 10 THEN "10" ELSE "11">>

\* The sitemap requests explored: one per failure, a sitemap for every
\* identifier list explored, one that also has an empty loc and pages that
\* are not a product's, and one whose locs end in "-5" and in "0".
SitemapResponses ==
    {SitemapResp(TRUE, 0, TRUE, TRUE, <<>>),
     SitemapResp(FALSE, 500, TRUE, TRUE, <<>>),
     SitemapResp(FALSE, 200, FALSE, TRUE, <<>>),
     SitemapResp(FALSE, 200, TRUE, FALSE, <<>>),
     SitemapResp(FALSE, 200, TRUE, TRUE,
                 <<LocOf(11), <<>>, <<"about">>, LocOf(10), <<"products", "10", "reviews">>>>),
     SitemapResp(FALSE, 200, TRUE, TRUE, <<<<"offers", "-5">>, <<"products", "0">>>>)}
        \cup {SitemapResp(FALSE, 200, TRUE, TRUE, [i \in 1..Len(l) |-> LocOf(l[i])]) :
                l \in IdentifierLists}

\* ----------------------------------------------------------- main program

\* services.NewProductService(200).
MainWorkersArg == 200

\* config.TestingConfig(): RequestDuration is 0, no rate limiting.
TestingRequestDuration == 0

\* What NewDatabaseService may meet: sql.Open fails, the ping fails, or the
\* store is reached.
StoreOutcomes == {"open", "ping", "ok"}

\* The errors of lines 148 and 153 of NewDatabaseService.
ErrDbOpen == <<"failed to connect to database">>
ErrDbPing == <<"failed to ping database">>

\* NewDatabaseService, lines 134-160: its error.
NewDatabaseService(store) ==
    IF store = "open" THEN ErrDbOpen
    ELSE IF store = "ping" THEN ErrDbPing
    ELSE NoError

\* The workers of the pool that are modelled: those of the service, up to
\* MaxWorkersArg of them.  A worker that never gets a job only finds jobChan
\* closed and returns.
ModelledWorkers(n) == IF n > MaxWorkersArg THEN MaxWorkersArg ELSE n

\* main is about to initialise its services; the store and the sitemap are
\* in some state and the tables are empty.
InitMain ==
    /\ productIDs = <<>>
    /\ responses = <<>>
    /\ duration = 0
    /\ maxWorkers = NewProductService(1)
    /\ mainPc = "idle"
    /\ PoolAtRest
    /\ FetchSingleAtRest
    /\ CtorAtRest
    /\ DbAtRest
    /\ ParseAtRest
    /\ SaveAtRest
    /\ progPc = "services"
    /\ progStore \in StoreOutcomes
    /\ progSitemap \in SitemapResponses
    /\ progErr = NoError
    /\ progLog = <<>>

\* Faulty variant: a main that logs the failure to reach the store and goes
\* on.
ProgNewServicesGoesOn ==
    /\ progPc = "services"
    /\ progPc' = "sitemap"
    /\ progLog' = IF NewDatabaseService(progStore) # NoError
                  THEN Append(progLog, "Error initializing database service")
                  ELSE Append(progLog, "Initialized services")
    /\ UNCHANGED <<notProg, poolVars, dbVars, saVars, progStore, progSitemap, progErr>>

\* Lines 38-48 of main: the three services; log.Fatalf if the store cannot
\* be reached.
ProgNewServices ==
    /\ progPc = "services"
    /\ IF NewDatabaseService(progStore) # NoError
       THEN /\ progErr' = NewDatabaseService(progStore)
            /\ progPc' = "fatal"
            /\ progLog' = Append(progLog, "Error initializing database service")
       ELSE /\ progPc' = "sitemap"
            /\ progLog' = Append(progLog, "Initialized services")
            /\ progErr' = progErr
    /\ UNCHANGED <<notProg, poolVars, dbVars, saVars, progStore, progSitemap>>

\* Lines 50-72 of main: FetchProductIds, log.Fatalf on its error; otherwise
\* the identifiers are handed to FetchAllProductsData with the configured
\* duration.  The remote end's answers to the fetches are fixed here.
ProgFetchProductIds ==
    /\ progPc = "sitemap"
    /\ LET r == FetchProductIds(progSitemap)
       IN  IF r.err # NoError
           THEN /\ progErr' = r.err
                /\ progPc' = "fatal"
                /\ progLog' = Append(progLog, "Error fetching product IDs")
                /\ UNCHANGED poolVars
           ELSE /\ progPc' = "fetching"
                /\ progLog' = Append(progLog, "Fetching product data")
                /\ progErr' = progErr
                /\ productIDs' = r.ids
                /\ responses' \in ResponseAssignments(Len(r.ids))
                /\ duration' = TestingRequestDuration
                /\ maxWorkers' = ModelledWorkers(NewProductService(MainWorkersArg))
                /\ mainPc' = "start"
                /\ pulled' = [i \in 1..Len(r.ids) |-> 0]
                /\ attempts' = [i \in 1..Len(r.ids) |-> 0]
                /\ produced' = [i \in 1..Len(r.ids) |-> 0]
                /\ consumed' = [i \in 1..Len(r.ids) |-> 0]
                /\ UNCHANGED <<spawned, delay, tickVars, jobVars, resVars, wg, workerVars,
                               feederVars, watcherPc, monVars, stats, aggVars, returned>>
    /\ UNCHANGED <<notProg, dbVars, saVars, progStore, progSitemap>>

\* Lines 72-82 of main: FetchAllProductsData has returned; log.Fatalf on its
\* error, otherwise SaveAllData(products, nutritionalData).
ProgAfterFetch ==
    /\ progPc = "fetching"
    /\ mainPc = "done"
    /\ IF returned.err # NoError
       THEN /\ progErr' = returned.err
            /\ progPc' = "fatal"
            /\ progLog' = Append(progLog, "Error fetching product data")
            /\ UNCHANGED saVars
       ELSE /\ progPc' = "saving"
            /\ progLog' = Append(progLog, "Saving data to database")
            /\ progErr' = progErr
            /\ saPc' = "call"
            /\ saProducts' = returned.products
            /\ saNutritional' = returned.nutritionalData
            /\ saCalls' = 1
            /\ UNCHANGED <<saErr, saPrev, tblProducts, tblNutritional>>
    /\ UNCHANGED <<notProg, poolVars, dbVars, progStore, progSitemap>>

\* Lines 82-102 of main: SaveAllData has returned; log.Fatalf on its error,
\* otherwise the row counts and the duration of the run are logged and main
\* returns.
ProgAfterSave ==
    /\ progPc = "saving"
    /\ saPc = "done"
    /\ IF saErr # NoError
       THEN /\ progErr' = saErr
            /\ progPc' = "fatal"
            /\ progLog' = Append(progLog, "Error saving data to database")
       ELSE /\ progPc' = "exit"
            /\ progLog' = Append(progLog, "Application execution")
            /\ progErr' = progErr
    /\ UNCHANGED <<notProg, poolVars, dbVars, saVars, progStore, progSitemap>>

\* The steps of FetchAllProductsData when no rate limiter is configured.
NextUnpacedPool ==
    \/ MainSetup
    \/ MainCreateTicker
    \/ MainSpawnWorker
    \/ MainSpawnFeeder
    \/ MainSpawnWatcher
    \/ FeederSend
    \/ FeederClose
    \/ \E w \in WorkerSlots : WorkerPull(w)
    \/ \E w \in WorkerSlots : WorkerExit(w)
    \/ \E w \in WorkerSlots : WorkerFetchReturn(w)
    \/ WatcherWait
    \/ WatcherClose
    \/ WatcherSignal
    \/ MonitorTick
    \/ MonitorLoad
    \/ MonitorReport
    \/ MonitorFinalReport
    \/ MonitorNotify
    \/ AggReceive
    \/ AggEnd
    \/ AggCount
    \/ AggClassify
    \/ MainReturn

ProgStep == ProgNewServices \/ ProgFetchProductIds \/ ProgAfterFetch \/ ProgAfterSave
SaveStep == SaveAllCall \/ SaveAllAfterProducts \/ SaveAllAfterNutritional \/ NextDb

NextMain ==
    \/ ProgNewServices
    \/ ProgFetchProductIds
    \/ NextUnpacedPool
    \/ ProgAfterFetch
    \/ SaveAllCall
    \/ SaveAllAfterProducts
    \/ SaveAllAfterNutritional
    \/ NextDb
    \/ ProgAfterSave

SpecMain == InitMain /\ [][NextMain]_vars

\* The scheduler's fairness towards the pool, and main and the writer run on
\* when they can.
FairSpecMain == SpecMain /\ Fairness /\ WF_vars(ProgStep) /\ WF_vars(SaveStep)

\* ------------------------------------------------------------------ claims

Returned == mainPc = "done"
InFlight == {w \in WorkerSlots : wPc[w] = "fetch"}
Failing(i) == FetchResult(productIDs[i], responses[i]).Error # NoError

\* C1: every list position (also of a list that repeats an identifier) is
\* pulled from the job channel at most once, fetched at most once, yields at
\* most one result and that result is received at most once, in this order;
\* and when FetchAllProductsData has returned each of the four has happened
\* exactly once for every position.
C1_ExactlyOnce ==
    \A i \in Positions :
        /\ pulled[i] <= 1
        /\ attempts[i] <= pulled[i]
        /\ produced[i] <= attempts[i]
        /\ consumed[i] <= produced[i]
        /\ Returned => consumed[i] = 1

\* A run of two workers over a list that repeats an identifier, one of whose
\* fetches failed, has returned.
C1_Witness ==
    /\ Returned
    /\ N >= 2
    /\ maxWorkers >= 2
    /\ productIDs[1] = productIDs[2]
    /\ \E i \in Positions : Failing(i)
    /\ \A i \in Positions : pulled[i] = 1 /\ attempts[i] = 1 /\ consumed[i] = 1

\* C2: when FetchAllProductsData returns for a non-empty list,
\* ProcessedCount = TotalProducts = len(productIDs) and
\* ProcessedCount = SuccessCount + NotFoundCount + ErrorCount.
C2_CountsAtReturn ==
    (Returned /\ N > 0) =>
        /\ stats.ProcessedCount = stats.TotalProducts
        /\ stats.TotalProducts = N
        /\ stats.ProcessedCount
              = stats.SuccessCount + stats.NotFoundCount + stats.ErrorCount

\* A run with one success and one not-found outcome has returned.
C2_Witness ==
    /\ Returned
    /\ N = 2
    /\ stats.SuccessCount = 1
    /\ stats.NotFoundCount = 1


\* C3: provided every fetch comes back and, when pacing is enabled, the rate
\* limiter keeps ticking (the fairness of FairSpec), every call of
\* FetchAllProductsData eventually returns, for every identifier list,
\* duration and worker count.  Stated for the non-empty lists, where the
\* interval of line 80 is the same on every platform.
C3_EventuallyReturns == (mainPc = "start" /\ N >= 1) ~> Returned

\* What does hold under the same fairness: a call that has got past the
\* creation of its rate limiter (line 109) eventually returns, so no
\* goroutine stays blocked on jobChan, resultChan, done or progressDone.
C3_ReturnsOnceTickerExists == (mainPc = "spawn") ~> Returned

\* C4: exactly maxWorkers worker goroutines are spawned, and at most
\* maxWorkers fetches are in flight in any state.
C4_BoundedWorkers ==
    /\ Cardinality({w \in WorkerSlots : wPc[w] # "unborn"}) = spawned
    /\ spawned <= maxWorkers
    /\ mainPc \in {"spawnWatcher", "collect", "count", "classify", "waitProgress",
                   "finish", "done"} => spawned = maxWorkers
    /\ Cardinality(InFlight) <= maxWorkers

\* Every worker of a pool of two or more has a fetch in flight.
C4_Witness ==
    /\ maxWorkers >= 2
    /\ spawned = maxWorkers
    /\ Cardinality(InFlight) = maxWorkers

Received404(r) == ~r.reqErr /\ ~r.doErr /\ r.status = HTTPNotFound

\* The aggregator has finished with the result of position i.
Classified(i) ==
    /\ consumed[i] = 1
    /\ ~(mainPc \in {"count", "classify"} /\ aggCur[2] = i)

\* C6: the aggregator counts an outcome as not-found if and only if its
\* fetch received HTTP 404.  NotFoundCount is the number of handled positions
\* whose fetch received a 404, ErrorCount the number of handled positions
\* that failed otherwise, and the error list holds one entry per counted
\* error and no not-found error.
C6_NotFoundIff404 ==
    /\ stats.NotFoundCount
          = Cardinality({i \in Positions : Classified(i) /\ Received404(responses[i])})
    /\ stats.ErrorCount
          = Cardinality({i \in Positions :
                            Classified(i) /\ Failing(i) /\ ~Received404(responses[i])})
    /\ Len(errors) = stats.ErrorCount
    /\ \A k \in 1..Len(errors) : \A i \in Positions : errors[k] # ErrNotFound(productIDs[i])

\* A 404 and a transport failure have both been handled.
C6_Witness ==
    /\ Returned
    /\ N = 2
    /\ Received404(responses[1])
    /\ responses[2].doErr
    /\ stats.NotFoundCount = 1
    /\ stats.ErrorCount = 1

\* The class of a result, as the aggregator tells them apart (lines 156-167).
ClassOf(result) ==
    IF result.Error = NoError THEN "success"
    ELSE IF IsNotFound(result) THEN "not-found"
    ELSE "error"

\* The body of a 200 response decompresses, reads and decodes.
BodyDecodes(r) == (r.gzipHeader => r.gzipOK) /\ r.readOK /\ r.jsonOK

\* The class a response is to get: a request that could not be made or that
\* failed in transport is an error; then a 404 is not-found; then any other
\* status but 200 is an error; then a 200 whose body does not decode is an
\* error; what is left is a success.
ClassOfResponse(r) ==
    CASE r.reqErr \/ r.doErr -> "error"
      [] ~(r.reqErr \/ r.doErr) /\ r.status = 404 -> "not-found"
      [] ~(r.reqErr \/ r.doErr) /\ r.status \notin {200, 404} -> "error"
      [] ~(r.reqErr \/ r.doErr) /\ r.status = 200 /\ ~BodyDecodes(r) -> "error"
      [] ~(r.reqErr \/ r.doErr) /\ r.status = 200 /\ BodyDecodes(r) -> "success"

\* C7: the result of fetchSingleProductData falls into the one class its
\* response determines, in the priority order transport failure, 404, other
\* status, undecodable body, success; an error for a status other than 200
\* and 404 carries the status code; a success has a nil error and the
\* product of the requested identifier.
C7_Classification ==
    fsPc = "done" =>
        /\ ClassOf(fsRet) = ClassOfResponse(fsResp)
        /\ fsRet.ProductID = fsID
        /\ (~fsResp.reqErr /\ ~fsResp.doErr /\ fsResp.status \notin {200, 404})
              => fsRet.Error = ErrStatus(fsID, fsResp.status)
        /\ ClassOf(fsRet) = "success" => fsRet.Product.ProductID = fsID

\* A 404 whose body would not even decode has been classified not-found.
C7_Witness ==
    /\ fsPc = "done"
    /\ ~fsResp.reqErr /\ ~fsResp.doErr
    /\ fsResp.status = 404
    /\ ~fsResp.jsonOK
    /\ ClassOf(fsRet) = "not-found"

\* C8: resultChan is closed exactly once, by the completion watcher, and only
\* after every worker has returned; no worker sends on it after its close;
\* and the aggregator loop ends only after that close and after every result
\* has been received.
C8_ResultChanClose ==
    /\ resultClosed <= 1
    /\ resultClosed = 1 <=> watcherPc \in {"signal", "done"}
    /\ resultClosed = 1 => wg = 0 /\ \A w \in Workers : wPc[w] = "exit"
    /\ ~sentAfterClose
    /\ mainPc \in {"waitProgress", "finish", "done"} =>
          /\ resultClosed = 1
          /\ \A i \in Positions : consumed[i] = 1

\* resultChan is closed while two results are still buffered in it and the
\* aggregator loop is running.
C8_Witness ==
    /\ resultClosed = 1
    /\ Len(resultChan) >= 2
    /\ mainPc = "collect"

\* C9: resultChan never holds more than len(productIDs) results, and whenever
\* a worker is inside fetchSingleProductData the buffer has room for its
\* result: the send does not block.
C9_SendNeverBlocks ==
    /\ Len(resultChan) <= N
    /\ \A w \in WorkerSlots : wPc[w] = "fetch" => Len(resultChan) < ResultCap

\* The aggregator has received nothing yet, one result is buffered and a
\* worker is about to send another.
C9_Witness ==
    /\ N >= 2
    /\ \A i \in Positions : consumed[i] = 0
    /\ Len(resultChan) = N - 1
    /\ \E w \in Workers : wPc[w] = "fetch"

\* C10: for a duration of zero or less no ticker is created, no tick is ever
\* emitted, no worker ever waits for one, the call does not crash, and when
\* it returns every result has been collected.
C10_NoPacing ==
    duration <= 0 =>
        /\ ticker = "nil"
        /\ tickerC = 0
        /\ ticksEmitted = 0
        /\ \A w \in WorkerSlots : wPc[w] # "tick"
        /\ mainPc # "panic"
        /\ Returned =>
              /\ stats.ProcessedCount = N
              /\ Len(returned.products) + stats.NotFoundCount + stats.ErrorCount = N

\* An unpaced run over the longest list has returned with every fetch a
\* success, the product of the second identifier ahead of that of the first.
C10_Witness ==
    /\ Returned
    /\ duration = 0
    /\ N = MaxIDs
    /\ N >= 2
    /\ Len(returned.products) = N
    /\ productIDs[1] # productIDs[2]
    /\ returned.products[1].ProductID = productIDs[2]

\* The sum f[1] + ... + f[n].
RECURSIVE SumTo(_, _)
SumTo(f, n) == IF n = 0 THEN 0 ELSE f[n] + SumTo(f, n - 1)

\* Fetches started so far, over all workers.
Started == SumTo(attempts, N)

\* C11: for a positive duration there is one ticker, of period
\* duration / len(productIDs), shared by all workers, and each fetch start
\* has taken one tick of its own off the ticker's channel: the fetches
\* started are never more than the ticks emitted, whatever maxWorkers is
\* (they are the ticks emitted less the one that may still be buffered).
C11_FetchesWithinTicks ==
    duration > 0 =>
        /\ (ticker # "nil" /\ N >= 1) => delay = duration \div N /\ delay > 0
        /\ tickerC <= 1
        /\ Started <= ticksEmitted
        /\ Started = ticksEmitted - tickerC
        /\ \A w \in WorkerSlots : wPc[w] = "fetch" => ticker # "nil"

\* Of two workers that each hold a job, one has started its fetch on the only
\* tick emitted so far and the other is still waiting for a tick.
C11_Witness ==
    /\ duration > 0
    /\ maxWorkers >= 2
    /\ ticksEmitted = 1
    /\ tickerC = 0
    /\ \E w1, w2 \in Workers : wPc[w1] = "fetch" /\ wPc[w2] = "tick"

\* C12: for the empty identifier list and any duration, no rate limiter is
\* created, no fetch is made, the call does not crash, and when it returns
\* its results are empty and its error is nil.
C12_EmptyListNoGovernor ==
    N = 0 =>
        /\ ticker = "nil"
        /\ mainPc # "panic"
        /\ \A w \in WorkerSlots : wPc[w] \notin {"tick", "fetch"}
        /\ Returned =>
              /\ returned.products = <<>>
              /\ returned.nutritionalData = <<>>
              /\ returned.err = NoError

\* C13: a service made with maxWorkers <= 0 is the service made with 200
\* and spawns 200 workers; a service made with maxWorkers >= 1 keeps that
\* value and spawns that many.
C13_DefaultWorkers ==
    /\ ctorPc \in {"spawn", "spawned"} =>
          /\ ctorArg <= 0 => ctorWorkers = 200
          /\ ctorArg >= 1 => ctorWorkers = ctorArg
    /\ ctorSpawned <= ctorWorkers
    /\ ctorPc = "spawned" =>
          /\ ctorArg <= 0 => ctorSpawned = 200
          /\ ctorArg >= 1 => ctorSpawned = ctorArg

\* A service made with maxWorkers = 0 has spawned its 200 workers.
C13_Witness ==
    /\ ctorPc = "spawned"
    /\ ctorArg = 0
    /\ ctorSpawned = 200

\* The batch writer's call has returned, with or without an error.
DbReturned == dbPc = "done"
DbSucceeded == DbReturned /\ dbErr = NoError

\* The parameters per record the claims speak of, the chunk size
\* floor(P / k) for the ceiling P = 60000, and ceil(a / b).
ParamsOf(kind) == IF kind = "products" THEN 16 ELSE 4
ChunkRows(kind) == 60000 \div ParamsOf(kind)
CeilDiv(a, b) == (a + b - 1) \div b

\* The runs of rows are the records 1..n, each once and in order.
HoldsRecords(runs, n) ==
    IF n = 0 THEN runs = <<>>
    ELSE /\ Len(runs) > 0
         /\ runs[1].first = 1
         /\ runs[Len(runs)].last = n
         /\ \A j \in 1..Len(runs) :
               /\ runs[j].consecutive
               /\ runs[j].rows = runs[j].last - runs[j].first + 1
               /\ j > 1 => runs[j].first = runs[j - 1].last + 1

\* The call has returned because the statement of chunk j failed.
FailedAtChunk(j) == DbReturned /\ Len(dbExecs) = j /\ ~dbExecs[j].ok

\* C14: called with an empty collection, SaveProducts and
\* SaveNutritionalData begin no transaction, execute no statement and return
\* nil.
C14_EmptyIsNoOp ==
    dbLen = 0 =>
        /\ dbPc \in {"idle", "call", "done"}
        /\ dbBegins = 0
        /\ dbTx = "none"
        /\ dbExecs = <<>>
        /\ dbStore = <<>>
        /\ dbErr = NoError

\* SaveNutritionalData has returned from a call with an empty collection.
C14_Witness ==
    /\ DbReturned
    /\ dbKind = "nutritional"
    /\ dbLen = 0
    /\ dbErr = NoError

\* The rows of the statements executed so far, one number per statement.
RowsPerStatement == [j \in 1..Len(dbExecs) |-> dbExecs[j].rows]

C17_AllOrNothing ==
    /\ dbBegins <= 1
    /\ dbCommits <= dbBegins
    /\ ~DbReturned => dbStore = <<>>
    /\ (DbReturned /\ dbErr # NoError) => dbStore = <<>> /\ dbCommits = 0
    /\ DbSucceeded => HoldsRecords(dbStore, dbLen) /\ dbPending = <<>>

\* The commit failed after both chunks of a nutritional collection had been
\* written, and the table is empty.
C17_Witness ==
    /\ DbReturned
    /\ dbKind = "nutritional"
    /\ dbErr = ErrCommit
    /\ Len(dbExecs) = 2
    /\ dbExecs[1].ok /\ dbExecs[2].ok
    /\ dbStore = <<>>

\* C18: when the statement of chunk j fails, the call returns at once an
\* error naming the chunk's 1-based record range (i + 1 to end); no
\* statement is executed after the failed one, and no chunk is executed
\* twice.
C18_FailureSurfacesAtOnce ==
    /\ \A j \in 1..Len(dbExecs) :
          ~dbExecs[j].ok =>
              /\ j = Len(dbExecs)
              /\ DbReturned
              /\ dbExecs[j].first = (j - 1) * ChunkRows(dbKind) + 1
              /\ dbExecs[j].last =
                    IF j * ChunkRows(dbKind) > dbLen THEN dbLen ELSE j * ChunkRows(dbKind)
              /\ dbErr = ErrBatch(dbKind, dbExecs[j].first, dbExecs[j].last)
    /\ \A j, h \in 1..Len(dbExecs) : j < h => dbExecs[j].last < dbExecs[h].first

\* The second of the three chunks of 9000 products failed: the error names
\* records 3751 to 7500 and the third chunk was never executed.
C18_Witness ==
    /\ FailedAtChunk(2)
    /\ dbKind = "products"
    /\ dbLen = 9000
    /\ dbErr = ErrBatch("products", 3751, 7500)

\* The chunks a collection of the current size is to be split into.
ChunksDue == CeilDiv(dbLen, ChunkRows(dbKind))

\* C19: the input is cut into consecutive chunks handled one after another.
\* Chunk j starts right after chunk j-1; every chunk but the last has
\* exactly floor(60000 / k) records and the last has between 1 and that
\* many; the batch of the chunk at hand is the records i+1..end in order;
\* and the rows written so far are the records of the chunks executed, each
\* once and in input order, so that after the last chunk they are the input.
C19_ConsecutiveChunks ==
    /\ Len(dbExecs) <= ChunksDue
    /\ \A j \in 1..Len(dbExecs) :
          /\ dbExecs[j].first = (j - 1) * ChunkRows(dbKind) + 1
          /\ dbExecs[j].rows = dbExecs[j].last - dbExecs[j].first + 1
          /\ j < ChunksDue => dbExecs[j].rows = ChunkRows(dbKind)
          /\ j = ChunksDue =>
                /\ dbExecs[j].rows \in 1..ChunkRows(dbKind)
                /\ dbExecs[j].last = dbLen
    /\ dbPc = "exec" =>
          StatementRows(CurrentStatement) = [n \in 1..(dbEnd - dbI) |-> dbI + n]
    /\ dbPc \in {"loop", "exec"} =>
          HoldsRecords(dbPending, IF dbExecs = <<>> THEN 0 ELSE dbExecs[Len(dbExecs)].last)
    /\ dbPc = "commit" => HoldsRecords(dbPending, dbLen) /\ Len(dbExecs) = ChunksDue

\* 7501 products have been written as chunks of 3750, 3750 and 1 records and
\* the commit is next.
C19_Witness ==
    /\ dbPc = "commit"
    /\ dbKind = "products"
    /\ dbLen = 7501
    /\ RowsPerStatement = <<3750, 3750, 1>>

\* C20: every bulk statement has rows * k arguments, at most 60000 (k = 16
\* for products, 4 for nutritional data); row r holds the k placeholders
\* $((r-1)k + 1) .. $(rk), so the placeholders are $1 .. $(rows * k) in
\* order, starting again at $1 in every chunk; and the n-th argument is the
\* field the n-th placeholder stands for: a field of the r-th record of the
\* chunk.
C20_PlaceholdersBindArguments ==
    dbPc = "exec" =>
        LET stmt == CurrentStatement
            k == ParamsOf(dbKind)
            rows == Len(stmt.values)
        IN  /\ rows = dbEnd - dbI
            /\ Len(stmt.args) = rows * k
            /\ rows * k <= 60000
            /\ \A r \in 1..rows :
                  /\ Len(stmt.values[r]) = k
                  /\ \A c \in 1..k :
                        /\ stmt.values[r][c] = (r - 1) * k + c
                        /\ stmt.args[(r - 1) * k + c] = RowArgs(dbKind, dbI + r)[c]

\* The statement of the second chunk of a products collection is a full one:
\* 3750 rows, 60000 arguments, numbered from $1 again.
C20_Witness ==
    /\ dbPc = "exec"
    /\ dbKind = "products"
    /\ dbI = 3750
    /\ dbEnd = 7500
    /\ Len(CurrentStatement.args) = 60000
    /\ CurrentStatement.values[1][1] = 1


\* ------------------------------------------------------- progress monitor

\* C21: the monitor emits at most one COMPLETED summary, and has emitted it
\* exactly when it is past line 203; it reaches its final branch only after
\* the watcher's completion signal has been received; once the summary is out
\* the monitor is never again in its periodic branch and, once returned, stays
\* returned; FetchAllProductsData is past line 171 only when the one summary
\* has been emitted and the monitor has returned; and a monitor that received
\* the signal does emit the summary and return.
C21_OneFinalSummary ==
    /\ [](/\ finalReports <= 1
          /\ finalReports = 1 <=> monPc \in {"notify", "done"}
          /\ monPc \in {"final", "notify", "done"} => watcherPc = "done"
          /\ mainPc \in {"finish", "done"} => finalReports = 1 /\ monPc = "done")
    /\ [][/\ finalReports = 1 => finalReports' = 1 /\ monPc' \notin {"select", "tick"}
          /\ monPc = "done" => monPc' = "done"]_vars
    /\ (monPc = "final") ~> (monPc = "done" /\ finalReports = 1)

\* The call has returned from a run over two identifiers: the completion
\* signal was delivered, one summary was emitted and the monitor has returned.
C21_Witness ==
    /\ Returned
    /\ N = 2
    /\ finalReports = 1
    /\ monPc = "done"
    /\ watcherPc = "done"

\* C22: once the monitor has taken the four counter reads of its final
\* observation, the values it holds are the totals of the whole run:
\* processed equals the number of identifiers, and processed equals
\* succeeded + notFound + failed.
C22_FinalObservationComplete ==
    monObs.loaded = 4 =>
        /\ monObs.processed = stats.TotalProducts
        /\ monObs.processed = monObs.success + monObs.notFound + monObs.errors

\* The returned products with identifier id.
ReturnedWith(id) == {k \in 1..Len(returned.products) : returned.products[k].ProductID = id}

\* C23: every step that changes the state of the running monitor leaves the counters, the
\* channels, the workers, the feeder, the collected results and the wait
\* group as they were; a worker holding a result can always send it, the
\* feeder can send whenever jobChan has room, and the aggregator can take a
\* buffered result, count it and classify it, whatever the monitor is doing;
\* and what the call returns is fixed by the fetches alone: one product per
\* position that did not fail, no error value.
C23_MonitorOnlyObserves ==
    /\ [][(monPc # "unborn" /\ monVars' # monVars) =>
            UNCHANGED <<stats, jobVars, resVars, wg, workerVars, feederVars,
                        aggVars, returned, ghostVars>>]_vars
    /\ [](/\ \A w \in WorkerSlots : (wPc[w] = "fetch" /\ Alive) => ENABLED WorkerFetchReturn(w)
          /\ (feederPc = "feed" /\ feederIdx < N /\ Len(jobChan) < JobCap /\ Alive)
                => ENABLED FeederSend
          /\ (mainPc = "collect" /\ Len(resultChan) > 0) => ENABLED AggReceive
          /\ mainPc = "count" => ENABLED AggCount
          /\ mainPc = "classify" => ENABLED AggClassify
          /\ (mainPc = "collect" /\ RangeEnds(resultChan, resultClosed)) => ENABLED AggEnd
          /\ Returned =>
                \A id \in {productIDs[i] : i \in Positions} :
                    Cardinality(ReturnedWith(id))
                      = Cardinality({i \in Positions : productIDs[i] = id /\ ~Failing(i)}))

\* The monitor is in its periodic branch while a worker is inside a fetch
\* and a result waits in resultChan for the aggregator.
C23_Witness ==
    /\ monPc = "tick"
    /\ \E w \in Workers : wPc[w] = "fetch"
    /\ Len(resultChan) > 0
    /\ mainPc = "collect"

\* The three category counters together.
Categorised(st) == st.SuccessCount + st.NotFoundCount + st.ErrorCount

\* The results the aggregator has received so far.
Received == Cardinality({i \in Positions : consumed[i] = 1})

\* C24: no step lowers a counter; after the initialisation of lines 91-94
\* no step changes TotalProducts or StartTime; a step raises ProcessedCount
\* by at most 1 and the three category counters by at most 1 in all; every
\* received result has been counted once in ProcessedCount as soon as line
\* 154 is past, and once in exactly one category as soon as its
\* classification is past.
C24_CountersGrowByOne ==
    /\ [][/\ stats'.ProcessedCount \in {stats.ProcessedCount, stats.ProcessedCount + 1}
          /\ stats'.SuccessCount >= stats.SuccessCount
          /\ stats'.NotFoundCount >= stats.NotFoundCount
          /\ stats'.ErrorCount >= stats.ErrorCount
          /\ Categorised(stats') \in {Categorised(stats), Categorised(stats) + 1}
          /\ mainPc # "start" =>
                /\ stats'.TotalProducts = stats.TotalProducts
                /\ stats'.StartTime = stats.StartTime]_vars
    /\ [](/\ stats.ProcessedCount = Received - (IF mainPc = "count" THEN 1 ELSE 0)
          /\ Categorised(stats)
                = Received - (IF mainPc \in {"count", "classify"} THEN 1 ELSE 0)
          /\ mainPc # "start" => stats.TotalProducts = N /\ stats.StartTime = 1)

\* Two outcomes of different categories have been counted: ProcessedCount is
\* 2, one success and one plain error.
C24_Witness ==
    /\ stats.ProcessedCount = 2
    /\ stats.SuccessCount = 1
    /\ stats.ErrorCount = 1
    /\ stats.NotFoundCount = 0
    /\ mainPc = "collect"


\* ------------------------------------------------------- returned errors

\* C27: when FetchAllProductsData has returned from a run in which at least
\* one identifier ended in a failure other than not-found, the error value it
\* returned is not nil.
C27_ErrorsReturned ==
    (Returned /\ stats.ErrorCount > 0) => returned.err # NoError


\* ------------------------------------------------------ response mapping

\* What a decoded response holds under key k: the value there if every map
\* the key lies in is present and is a map, no value otherwise.
ValueAt(j, k) == IF \A c \in PathOf(k) : j[c].t = "object" THEN j[k] ELSE JAbsent

\* The zero value of models.Product.
ZeroProduct == [NewProduct(0) EXCEPT !.CreatedAt = 0]

\* C29: whatever the decoded response, ParseProductFromResponse returns a
\* product with the requested ProductID and the creation time, in which every
\* field whose value is present in the response with a type the parser reads
\* is that value (tags removed from texts) and every other field is zero;
\* the description is bopData's detailed description where there is one and
\* the product's own otherwise; the cooking guidelines are those of
\* bopData.fields.  The full response gives a product with no zero field and
\* the empty one a product that is zero but for ProductID and CreatedAt.
C29_ParseCopiesPresentFields ==
    parsePc = "done" =>
        LET v(k) == ValueAt(parseIn, k)
        IN  /\ parseOut.ProductID = parseID
            /\ parseOut.CreatedAt = 1
            /\ parseOut.ProductType = StringOf(v("type"), <<>>)
            /\ parseOut.ProductName = ReplaceAllBr(StringOf(v("name"), <<>>))
            /\ parseOut.ProductBrand = StringOf(v("brand"), <<>>)
            /\ parseOut.ProductPackSizeDescription = StringOf(v("packSizeDescription"), <<>>)
            /\ parseOut.ProductAvailable = BoolOf(v("available"), FALSE)
            /\ parseOut.ProductAlcohol = BoolOf(v("alcohol"), FALSE)
            /\ parseOut.ProductPriceAmount = AmountOf(v("priceAmount"), 0)
            /\ parseOut.ProductCurrency = StringOf(v("priceCurrency"), <<>>)
            /\ parseOut.ProductUnitPriceAmount = AmountOf(v("unitPriceAmount"), 0)
            /\ parseOut.ProductUnitPriceCurrency = StringOf(v("unitPriceCurrency"), <<>>)
            /\ parseOut.ProductUnitPriceUnit = StringOf(v("unit"), <<>>)
            /\ parseOut.ProductCategories = CategoriesOf(v("categoryPath"))
            /\ parseOut.ProductDescription =
                  ReplaceAllBr(StringOf(v("detailedDescription"),
                                        StringOf(v("description"), <<>>)))
            /\ parseOut.ProductCookingGuidelines = CookingGuidelinesOf(v("fields"), <<>>)
            /\ parseIn = FullResponse =>
                  /\ \A f \in DOMAIN parseOut : parseOut[f] # ZeroProduct[f]
                  /\ parseOut.ProductDescription = <<"long">>
                  /\ parseOut.ProductCookingGuidelines = <<"bake">>
            /\ parseIn = EmptyResponse => parseOut = NewProduct(parseID)

\* What does hold: the same, for the responses in which product is a map.
C29_CopiesInsideProduct ==
    parseIn["product"].t = "object" => C29_ParseCopiesPresentFields


\* ------------------------------------------------------------ SaveAllData

\* C28: when SaveAllData has succeeded a second time on the arguments it
\* succeeded on before, both tables hold the rows they held after the first
\* call: one row of products per identifier and no further row of
\* product_nutritional_data.
C28_SecondSaveChangesNothing ==
    (saCalls = 2 /\ saPc = "done" /\ saErr = NoError /\ saPrev.err = NoError) =>
        /\ tblProducts = saPrev.products
        /\ tblNutritional = saPrev.nutritional

\* What does hold of a second successful call: table products is as it was,
\* with one row per identifier, and product_nutritional_data has every entry
\* once more.
C28_SecondSaveDoublesEntries ==
    (saCalls = 2 /\ saPc = "done" /\ saErr = NoError /\ saPrev.err = NoError) =>
        /\ tblProducts = saPrev.products
        /\ \A k, m \in 1..Len(tblProducts) :
              tblProducts[k].ProductID = tblProducts[m].ProductID => k = m
        /\ Len(saPrev.nutritional) = Len(saNutritional)
        /\ Len(tblNutritional) = 2 * Len(saNutritional)


\* ----------------------------------------------------------- main program

\* The store cannot be reached, or the sitemap cannot be fetched or parsed.
SetupFails ==
    \/ NewDatabaseService(progStore) # NoError
    \/ FetchProductIds(progSitemap).err # NoError

\* C25: in a run of main whose store cannot be reached or whose sitemap
\* cannot be fetched or parsed, main never gets past its set-up and ends in
\* log.Fatalf with the set-up error, after which nothing runs;
\* FetchAllProductsData is never called, no worker exists, no transaction is
\* begun, no statement is sent and the tables stay empty.
C25_SetupFailureIsFatal ==
    /\ [](SetupFails =>
            /\ progPc \in {"services", "sitemap", "fatal"}
            /\ mainPc = "idle"
            /\ productIDs = <<>>
            /\ \A w \in WorkerSlots : wPc[w] = "unborn"
            /\ saPc = "idle" /\ dbPc = "idle"
            /\ dbBegins = 0 /\ dbExecs = <<>>
            /\ tblProducts = <<>> /\ tblNutritional = <<>>
            /\ progPc = "fatal" =>
                  /\ progErr \in {NewDatabaseService(progStore),
                                  FetchProductIds(progSitemap).err}
                  /\ progErr # NoError
                  /\ ~ENABLED NextMain)
    /\ SetupFails ~> (progPc = "fatal")

\* The store was reached, the sitemap's body was not XML, and main has died
\* of it.
C25_Witness ==
    /\ progPc = "fatal"
    /\ progStore = "ok"
    /\ progErr = ErrSitemapXML
    /\ mainPc = "idle"

\* C26: SaveAllData never has SaveNutritionalData running unless
\* SaveProducts has returned nil and every product passed in has its row;
\* when it returns the error of SaveProducts nothing of the call is in
\* product_nutritional_data; every nutritional entry FetchAllProductsData
\* returns carries the ProductID of a product it returns; and every row of
\* product_nutritional_data has the product_id of a row of products.
C26_ProductsBeforeNutritional ==
    /\ saPc = "nutritional" =>
          /\ saErr = NoError
          /\ \A k \in 1..Len(saProducts) :
                \E m \in 1..Len(tblProducts) :
                    tblProducts[m].ProductID = saProducts[k].ProductID
    /\ (saPc \in {"call", "products"} \/ dbKind = "products") => tblNutritional = <<>>
    /\ (saPc = "done" /\ saErr # NoError /\ Head(saErr) = Head(ErrSaveProducts(NoError))) =>
          dbKind = "products" /\ tblNutritional = <<>>
    /\ Returned =>
          \A k \in 1..Len(returned.nutritionalData) :
              \E m \in 1..Len(returned.products) :
                  returned.products[m].ProductID = returned.nutritionalData[k].ProductID
    /\ \A k \in 1..Len(tblNutritional) :
          \E m \in 1..Len(tblProducts) :
              tblProducts[m].ProductID = tblNutritional[k].ProductID

\* main has ended normally with two products and a nutritional entry in the
\* tables.
C26_Witness ==
    /\ progPc = "exit"
    /\ Len(tblProducts) = 2
    /\ Len(tblNutritional) >= 1

\* C30: a run of main that has called FetchAllProductsData always gets the
\* pipeline's closing summary: the monitor's COMPLETED report and the final
\* statistics of lines 173-179, printed when the call returns, with counts
\* that add up to the number of identifiers.  Fetches that failed do not
\* prevent it, and SaveAllData, which can fail, only runs after it.  (When
\* SaveAllData fails main ends in log.Fatalf, without the row counts and the
\* duration of lines 87-101.)
C30_SummaryAlwaysPrinted ==
    /\ (progPc = "fetching") ~> (Returned /\ finalReports = 1)
    /\ [](progPc \in {"saving", "exit"} \/ (progPc = "fatal" /\ saPc # "idle") =>
            /\ Returned
            /\ finalReports = 1
            /\ stats.ProcessedCount = N
            /\ stats.ProcessedCount = Categorised(stats))
    /\ [](saPc # "idle" => Returned)
    /\ []((progPc = "fatal" /\ saPc = "done") =>
            /\ saErr # NoError
            /\ \A k \in 1..Len(progLog) : progLog[k] # "Application execution")

\* A run in which a fetch failed and then the write to the store failed has
\* ended, with the pipeline's summary printed.
C30_Witness ==
    /\ progPc = "fatal"
    /\ saErr # NoError
    /\ Returned
    /\ finalReports = 1
    /\ stats.ErrorCount >= 1
    /\ stats.SuccessCount >= 1

\* ------------------------------------------------------------- job channel

\* C31: the feeder sends the identifiers in list order and the send never
\* has to wait for room (jobChan holds, in order, the positions sent and not
\* yet received, and while an identifier is left to send the channel is not
\* full); it closes jobChan once, after the last identifier; nothing enters
\* jobChan after the close; and a worker leaves its range loop only on a
\* closed and empty jobChan.
C31_FeederFillsThenCloses ==
    /\ [](/\ feederIdx \in 0..N
          /\ Len(jobChan) <= feederIdx
          /\ \A k \in 1..Len(jobChan) : jobChan[k] = feederIdx - Len(jobChan) + k
          /\ \A i \in Positions : i <= feederIdx - Len(jobChan) <=> pulled[i] = 1
          /\ \A i \in Positions : pulled[i] <= 1
          /\ (feederPc = "feed" /\ feederIdx < N) => Len(jobChan) < JobCap /\ jobClosed = 0
          /\ jobClosed <= 1
          /\ jobClosed = 1 <=> feederPc = "done"
          /\ feederPc = "done" => feederIdx = N)
    /\ [][/\ jobClosed = 1 => jobClosed' = 1 /\ feederIdx' = feederIdx
                              /\ Len(jobChan') <= Len(jobChan)
          /\ \A w \in WorkerSlots :
                (wPc[w] = "recv" /\ wPc'[w] = "exit") => jobClosed = 1 /\ jobChan = <<>>
          /\ \A w \in WorkerSlots :
                (wPc[w] # "exit" /\ wPc'[w] = "exit") => wPc[w] = "recv"]_vars

\* Two identifiers were sent and received, jobChan is closed and empty, and
\* a worker has left its loop.
C31_Witness ==
    /\ N = 2
    /\ feederPc = "done"
    /\ jobClosed = 1
    /\ jobChan = <<>>
    /\ pulled = <<1, 1>>
    /\ \E w \in WorkerSlots : wPc[w] = "exit"

\* ---------------------------------------------------- order independence

\* How often x occurs in a slice.
Occurs(seq, x) == Cardinality({k \in 1..Len(seq) : seq[k] = x})

\* The result the fetch of list position i ends in.
ResultAt(i) == FetchResult(productIDs[i], responses[i])

\* The list positions whose result is of class c.
PositionsOfClass(c) == {i \in Positions : ClassOf(ResultAt(i)) = c}

\* The nutritional entries of all successful positions.
EntriesDue ==
    UNION {{ResultAt(i).NutritionalData[k] : k \in 1..Len(ResultAt(i).NutritionalData)} :
              i \in PositionsOfClass("success")}

\* C32: what FetchAllProductsData returns is, up to the order of the two
\* slices, a function of the identifier list and of the responses alone,
\* whatever the worker count, the pacing and the interleaving: each product
\* occurs as often as successful positions yield it and the slice holds
\* nothing else, likewise each nutritional entry, and the four counters are
\* the number of positions and the numbers of positions of each class.
C32_OutputsIndependentOfSchedule ==
    Returned =>
        /\ Len(returned.products) = Cardinality(PositionsOfClass("success"))
        /\ \A i \in PositionsOfClass("success") :
              Occurs(returned.products, ResultAt(i).Product)
                = Cardinality({j \in PositionsOfClass("success") :
                                  ResultAt(j).Product = ResultAt(i).Product})
        /\ \A k \in 1..Len(returned.nutritionalData) :
              returned.nutritionalData[k] \in EntriesDue
        /\ \A e \in EntriesDue :
              Occurs(returned.nutritionalData, e)
                = Cardinality({j \in PositionsOfClass("success") :
                                  \E k \in 1..Len(ResultAt(j).NutritionalData) :
                                      ResultAt(j).NutritionalData[k] = e})
        /\ stats.ProcessedCount = N
        /\ stats.SuccessCount = Cardinality(PositionsOfClass("success"))
        /\ stats.NotFoundCount = Cardinality(PositionsOfClass("not-found"))
        /\ stats.ErrorCount = Cardinality(PositionsOfClass("error"))

\* Two workers, pacing on: the call has returned the products of two
\* different identifiers in the reverse of the list's order.
C32_Witness ==
    /\ Returned
    /\ maxWorkers = 2
    /\ PacingEnabled(duration)
    /\ Len(returned.products) = 2
    /\ productIDs[1] # productIDs[2]
    /\ returned.products[1].ProductID = productIDs[2]
    /\ returned.products[2].ProductID = productIDs[1]
    /\ Len(returned.nutritionalData) >= 1

\* ------------------------------------------------------- counter coherence

\* C33: at every moment of a run, the moments at which the monitor's ticker
\* fires included, ProcessedCount is the sum of the three category counters
\* or one more, never less: it is one more exactly between the aggregator's
\* two increments for one result, and the category counters never move
\* unless ProcessedCount is one ahead.
C33_ProcessedLeadsByAtMostOne ==
    /\ [](/\ stats.ProcessedCount - Categorised(stats) \in {0, 1}
          /\ mainPc = "classify" => stats.ProcessedCount - Categorised(stats) = 1
          /\ mainPc \in {"collect", "count", "waitProgress", "finish", "done"} =>
                stats.ProcessedCount = Categorised(stats))
    /\ [][Categorised(stats') # Categorised(stats) =>
            /\ stats.ProcessedCount = Categorised(stats) + 1
            /\ stats'.ProcessedCount = stats.ProcessedCount
            /\ Categorised(stats') = Categorised(stats) + 1]_vars

\* The monitor's ticker has fired between the two increments for the second
\* result of a run.
C33_Witness ==
    /\ monPc = "tick"
    /\ mainPc = "classify"
    /\ stats.ProcessedCount = 2
    /\ Categorised(stats) = 1

\* ------------------------------------------------------- returned slices

\* The orders in which the successful positions can have been received.
SuccessOrders ==
    {f \in [1..Cardinality(PositionsOfClass("success")) -> PositionsOfClass("success")] :
        \A a, b \in DOMAIN f : f[a] = f[b] => a = b}

\* The nutritional entries of the positions f[from], f[from + 1], ..., one
\* after the other.
RECURSIVE EntriesInOrder(_, _)
EntriesInOrder(f, from) ==
    IF from > Len(f) THEN <<>>
    ELSE ResultAt(f[from]).NutritionalData \o EntriesInOrder(f, from + 1)

\* C34: when FetchAllProductsData returns, the products slice has one
\* product per successful fetch and no other: there are SuccessCount of
\* them, and in some order of the successful list positions the k-th product
\* is the product of the k-th position, with that position's identifier as
\* its ProductID, and the nutritional slice is those positions' entries
\* concatenated in the same order.  A fetch that ended not-found or failed
\* contributes no product and no entry.
C34_SlicesHoldTheSuccesses ==
    Returned =>
        /\ Len(returned.products) = stats.SuccessCount
        /\ \E f \in SuccessOrders :
              /\ Len(returned.products) = Len(f)
              /\ \A k \in 1..Len(f) :
                    /\ returned.products[k] = ResultAt(f[k]).Product
                    /\ returned.products[k].ProductID = productIDs[f[k]]
              /\ returned.nutritionalData = EntriesInOrder(f, 1)
        /\ \A i \in Positions :
              Failing(i) => ResultAt(i).Product = NoProduct
                            /\ ResultAt(i).NutritionalData = <<>>

\* A call has returned one product with its nutritional entry, for a list
\* of which one fetch succeeded and the other did not.
C34_Witness ==
    /\ Returned
    /\ N = 2
    /\ Len(returned.products) = 1
    /\ Len(returned.nutritionalData) = 1
    /\ stats.SuccessCount = 1
    /\ stats.NotFoundCount + stats.ErrorCount = 1

\* ------------------------------------------------------ interval positive

\* C35: for a positive duration and a list of at least one identifier the
\* interval computed at line 80 is strictly positive, and the call does not
\* crash while creating its ticker.
C35_IntervalPositive ==
    (PacingEnabled(duration) /\ N >= 1 /\ mainPc # "start") =>
        /\ delay > 0
        /\ mainPc # "panic"

\* ------------------------------------------------- SaveAllData, half done

\* SaveAllData has returned the error of SaveNutritionalData.
NutritionalWriteFailed ==
    /\ saPc = "done"
    /\ saErr # NoError
    /\ Head(saErr) = Head(ErrSaveNutritional(NoError))

\* Table product_nutritional_data as it was when the call under way began.
NutritionalBeforeCall == IF saCalls = 1 THEN <<>> ELSE saPrev.nutritional

\* C36: when SaveAllData returns the error of SaveNutritionalData,
\* SaveProducts had succeeded and its rows are still in table products, one
\* for every product passed in, while product_nutritional_data is as it was
\* before the call: the error SaveAllData returns does not undo the products
\* it wrote.
C36_ProductsStayWhenNutritionalFails ==
    NutritionalWriteFailed =>
        /\ dbKind = "nutritional"
        /\ dbErr # NoError
        /\ saErr = ErrSaveNutritional(dbErr)
        /\ Len(saNutritional) > 0
        /\ \A k \in 1..Len(saProducts) :
              \E m \in 1..Len(tblProducts) : tblProducts[m] = saProducts[k]
        /\ tblNutritional = NutritionalBeforeCall

\* SaveAllData has failed in SaveNutritionalData after sending a statement,
\* and the two products it wrote are in the table.
C36_Witness ==
    /\ NutritionalWriteFailed
    /\ saCalls = 1
    /\ Len(tblProducts) = 2
    /\ Len(dbExecs) >= 1

\* ------------------------------------------------------------ FetchProductIds

\* main has the identifiers FetchProductIds returned.
SitemapRead == progPc \in {"fetching", "saving", "exit"}

\* The <url> entries of the sitemap whose loc ends in an integer.
IntegerURLs ==
    {k \in 1..Len(progSitemap.urls) :
        /\ progSitemap.urls[k] # <<>>
        /\ Atoi(progSitemap.urls[k][Len(progSitemap.urls[k])]).ok}

\* The identifier in the loc of <url> entry k.
IdentifierOfURL(k) == Atoi(progSitemap.urls[k][Len(progSitemap.urls[k])]).v

\* C37: the identifiers FetchProductIds returns are those of the <url>
\* entries whose loc ends in an integer, one each and in the sitemap's
\* order (the i-th identifier is that of the i-th such entry), and each is a
\* positive integer.
C37_IdentifiersOrderedAndPositive ==
    SitemapRead =>
        /\ Len(productIDs) = Cardinality(IntegerURLs)
        /\ \A k \in IntegerURLs :
              productIDs[Cardinality({j \in IntegerURLs : j <= k})] = IdentifierOfURL(k)
        /\ \A i \in 1..Len(productIDs) : productIDs[i] > 0

\* What does hold: the identifiers are those of the entries whose loc ends
\* in an integer, one each and in the sitemap's order, whatever their sign.
C37_IdentifiersOrdered ==
    SitemapRead =>
        /\ Len(productIDs) = Cardinality(IntegerURLs)
        /\ \A k \in IntegerURLs :
              productIDs[Cardinality({j \in IntegerURLs : j <= k})] = IdentifierOfURL(k)

\* ------------------------------------------------- one result per fetch

\* C38: on every path through fetchSingleProductData the helper sends one
\* ProductResult and no more: it has returned exactly when it has sent once,
\* it never finds resultChan full when it is to send, and what it sends
\* carries the requested identifier and is the result the response
\* determines.  So FetchSingleProductData, started, always returns, with that
\* result, and leaves the helper returned and the channel empty.
C38_OneResultPerFetch ==
    /\ [](/\ fsSends \in {0, 1}
          /\ fsSends = 1 <=> fsHelperPc = "done"
          /\ fsHelperPc \notin {"unborn", "done"} => fsChan = <<>> /\ fsPc = "wait"
          /\ Len(fsChan) + (IF fsPc = "done" THEN 1 ELSE 0) = fsSends
          /\ \A k \in 1..Len(fsChan) :
                fsChan[k].ProductID = fsID /\ fsChan[k] = FetchResult(fsID, fsResp)
          /\ fsPc = "done" =>
                /\ fsRet.ProductID = fsID
                /\ fsRet = FetchResult(fsID, fsResp)
                /\ fsHelperPc = "done"
                /\ fsChan = <<>>)
    /\ (fsPc = "start") ~> (fsPc = "done" /\ fsHelperPc = "done")

\* A call whose round trip succeeded but whose body was not JSON has
\* returned, after one send by the helper on its last error path.
C38_Witness ==
    /\ fsPc = "done"
    /\ fsHelperPc = "done"
    /\ fsSends = 1
    /\ fsRet.Error = ErrJSON(fsID)
    /\ fsRet.ProductID = fsID

====
